---- MODULE Spec2Model ----
(***************************************************************************)
(* A model of the arena-based component tree of reovim                     *)
(* (src/src/tui/tree.rs) with the types of src/src/tui/mod.rs, the virtual *)
(* buffer of src/src/tui/terminal_buffer.rs and the built-in components.   *)
(*                                                                         *)
(* Ids are 0-based as in the Rust code; a per-node table is a sequence     *)
(* whose element id+1 belongs to node id.                                  *)
(***************************************************************************)
EXTENDS Integers, Sequences, FiniteSets, TLC

(***************************************************************************)
(* Bounds of the model.                                                    *)
(***************************************************************************)
\* add_child is called while the arena holds fewer nodes than this
MaxNodes == 4
\* expansion by children() grows the arena to at most this many nodes
MaxExpanded == 6
\* scroll_y never grows beyond this many entries more than the arena
MaxScrollGrowth == 2
\* the arena of a tree that is drawn holds at most this many nodes
MaxRenderNodes == 3
\* the arena of a tree of boxes that is only laid out holds at most this many
MaxLayoutNodes == 5
\* the arena of a tree whose focus is moved holds at most this many nodes
MaxNavNodes == 4
\* the arena of a tree that is scrolled holds at most this many nodes
MaxScrollNodes == 4
\* the arena of a tree whose cursors are set holds at most this many nodes
MaxCursorNodes == 2
\* a composited buffer holds at most this many commands
MaxBufferLen == 3
\* a composited rect is at most this wide and this high
MaxRectSide == 3
\* a measured string has at most this many characters
MaxTextLen == 12
\* a measured buffer is at most this wide
MaxBufferWidth == 12

(***************************************************************************)
(* Program constants.                                                      *)
(***************************************************************************)
U16Max == 65535
U16Mod == 65536
NoParent == -1

\* F applied to the value of v, which is computed once
Bind(v, F(_)) == CHOOSE r \in {F(x) : x \in {v}} : TRUE

Min(a, b) == CHOOSE m \in {a, b} : \A n \in {a, b} : m <= n
Max(a, b) == CHOOSE m \in {a, b} : \A n \in {a, b} : m >= n
saturating_sub(a, b) == Max(a - b, 0)
saturating_add(a, b) == Min(a + b, U16Max)

\* a u16 result: what the wrapped value is, and whether computing x overflowed
u16(x) == x % U16Mod
Overflowed(x) == x > U16Max \/ x < 0

\* Vec::get(id).copied().unwrap_or(default)
Get(table, id, default) ==
    IF id >= 0 /\ id < Len(table) THEN table[id + 1] ELSE default

\* *Vec::get_mut(id) = v, a no-op when the slot does not exist
Put(table, id, v) ==
    IF id >= 0 /\ id < Len(table) THEN [table EXCEPT ![id + 1] = v] ELSE table

\* Vec::insert(id, v): every element from index id on moves one place up
VecInsert(table, id, v) ==
    [k \in 1..(Len(table) + 1) |->
        IF k < id + 1 THEN table[k]
        ELSE IF k = id + 1 THEN v
        ELSE table[k - 1]]

Repeat(x, k) == [i \in 1..k |-> x]

RECURSIVE SumSeq(_)
SumSeq(s) == IF s = <<>> THEN 0 ELSE Head(s) + SumSeq(Tail(s))

(***************************************************************************)
(* Measurement, Overflow, LayoutMode, Rect, Formatting (tui/mod.rs).       *)
(***************************************************************************)
Cell(k) == [t |-> "Cell", n |-> k]
Percent(p) == [t |-> "Percent", n |-> p]
Content == [t |-> "Content", n |-> 0]
Fill == [t |-> "Fill", n |-> 0]

Rect(x, y, w, h) == [x |-> x, y |-> y, width |-> w, height |-> h]
RectEmpty == Rect(0, 0, 0, 0)

\* Rect::contains
rect_contains(r, col, row) ==
    /\ col >= r.x
    /\ col < r.x + r.width
    /\ row >= r.y
    /\ row < r.y + r.height

Formatting(pw, ph, ox, oy, rf, lm, fc) ==
    [preferred_width |-> pw, preferred_height |-> ph,
     overflow_x |-> ox, overflow_y |-> oy,
     request_focus |-> rf, layout_mode |-> lm, focusable |-> fc]

\* impl Default for Formatting
FormattingDefault ==
    Formatting(Percent(100), Percent(100), "Hide", "Hide", FALSE, "VerticalSplit", TRUE)

\* TextComponent::default_formatting
TextFormatting ==
    Formatting(Fill, Fill, "Hide", "Scroll", TRUE, "VerticalSplit", TRUE)

\* StatusComponent::default_formatting
StatusFormatting ==
    Formatting(Fill, Cell(1), "Hide", "Hide", FALSE, "VerticalSplit", TRUE)

\* DebugComponent::default_formatting (DebugComponent::new: Fill x Fill)
DebugFormatting ==
    Formatting(Fill, Fill, "Hide", "Hide", FALSE, "VerticalSplit", TRUE)

\* editor.rs: TextGutter, TextContent, TextRow, EditableText, Editor
TextGutterFormatting ==
    Formatting(Content, Fill, "Hide", "Hide", FALSE, "VerticalSplit", FALSE)
TextContentFormatting ==
    Formatting(Fill, Content, "Wrap", "Hide", FALSE, "VerticalSplit", TRUE)
TextRowFormatting ==
    Formatting(Fill, Content, "Hide", "Hide", FALSE, "HorizontalSplit", TRUE)
EditableTextFormatting ==
    Formatting(Fill, Fill, "Wrap", "Scroll", FALSE, "VerticalSplit", TRUE)
EditorFormatting ==
    Formatting(Fill, Fill, "Wrap", "Scroll", TRUE, "VerticalSplit", TRUE)

(***************************************************************************)
(* Components.  A node of the arena is a ComponentNode; what the tree can  *)
(* observe of it is its variant, what its render writes, what its          *)
(* children() adds and whether that call fails, and which commands its     *)
(* update issues.                                                          *)
(*   kind   the ComponentNode variant                                      *)
(*   lines  Text: the width of every line of the document                  *)
(*   cmds   Component: the commands its render records                     *)
(*   kids   the components its children() adds, in order                   *)
(*   fails  its children() returns Err after adding kids                   *)
(*   upd    "nav": its update issues move_cursor on h/j/k/l when focused   *)
(*          "text": TextComponent::update (in Normal mode)                 *)
(*          "select": editor.rs TextContent::update                        *)
(*   selected  TextContent's own flag                                      *)
(*   fmt    its default_formatting                                         *)
(***************************************************************************)
Comp(kind, lines, cmds, kids, fails, upd, fmt) ==
    [kind |-> kind, lines |-> lines, cmds |-> cmds, kids |-> kids,
     fails |-> fails, upd |-> upd, fmt |-> fmt, selected |-> FALSE]

\* ComponentNode::Frame; add_child gives it Formatting::default()
FrameNode == Comp("Frame", <<>>, <<>>, <<>>, FALSE, "none", FormattingDefault)

\* ComponentNode::Text over a document of two lines, of widths 2 and 1
TextNode == Comp("Text", <<2, 1>>, <<>>, <<>>, FALSE, "text", TextFormatting)

\* ComponentNode::Text over a document of one line of width 2
LineNode == Comp("Text", <<2>>, <<>>, <<>>, FALSE, "text", TextFormatting)

\* ComponentNode::Status
StatusNode == Comp("Status", <<>>, <<>>, <<>>, FALSE, "none", StatusFormatting)

\* editor.rs TextContent holding "ab": set_background, write
TextContentNode ==
    Comp("Component", <<>>, <<"B", "P", "P">>, <<>>, FALSE, "select", TextContentFormatting)

\* editor.rs TextGutter of width 0 for line 1: set_background, write("|"),
\* set_background, write("1 ")
TextGutterNode ==
    Comp("Component", <<>>, <<"B", "P", "B", "P", "P">>, <<>>, FALSE, "none",
         TextGutterFormatting)

\* editor.rs TextRow: children() adds a TextGutter and a TextContent
TextRowNode ==
    Comp("Component", <<>>, <<>>, <<"TextGutter", "TextContent">>, FALSE, "none",
         TextRowFormatting)

\* editor.rs EditableText over a one-line document: children() adds a TextRow
EditableTextNode ==
    Comp("Component", <<>>, <<>>, <<"TextRow">>, FALSE, "nav",
         EditableTextFormatting)

\* a user-supplied Box<dyn Component> that renders three rows of ten characters
BoxNode ==
    Comp("Component", <<>>,
         Repeat("P", 10) \o <<"N">> \o Repeat("P", 10) \o <<"N">> \o Repeat("P", 10),
         <<>>, FALSE, "none", FormattingDefault)

\* a user-supplied Box<dyn Component> whose children() returns Err
FailingNode ==
    Comp("Component", <<>>, <<"P">>, <<>>, TRUE, "none", FormattingDefault)

\* a user component that draws two rows of three characters
PaneNode ==
    Comp("Component", <<>>, Repeat("P", 3) \o <<"N">> \o Repeat("P", 3),
         <<>>, FALSE, "none", FormattingDefault)

ComponentOf(name) ==
    CASE name = "Frame" -> FrameNode
      [] name = "Text" -> TextNode
      [] name = "Line" -> LineNode
      [] name = "Status" -> StatusNode
      [] name = "TextContent" -> TextContentNode
      [] name = "TextGutter" -> TextGutterNode
      [] name = "TextRow" -> TextRowNode
      [] name = "EditableText" -> EditableTextNode
      [] name = "Failing" -> FailingNode
      [] name = "Box" -> BoxNode
      [] name = "Pane" -> PaneNode

(***************************************************************************)
(* The state: the fields of ComponentTree (root is always 0), the build    *)
(* profile, and the observations the properties are stated on.             *)
(***************************************************************************)
VARIABLES
    components, parent, children, rects, formatting, focus, dirty,
    pending_initialization, cursor_pos, scroll_x, scroll_y, cursor_col,
    cursor_row, cursor_initialized, cursor_style, focus_path,
    overflow_checks,  \* the build panics on integer overflow (debug profile)
    panicked,         \* the process has panicked
    last_call,        \* the call made last, its arguments and its result
    expanded,         \* per node, how often its children() was invoked
    rendered,         \* the nodes whose render the last call invoked
    composited,       \* the nodes the last call handed to the compositor
    placed,           \* the nodes the last call assigned a rect
    updated,          \* the nodes whose update the last call invoked, in order
    resolved,         \* the last call found the focused node's cursor on screen
    drawn_at          \* per node the last call drew, the screen origin it was drawn at

treeVars ==
    <<components, parent, children, rects, formatting, focus, dirty,
      pending_initialization, cursor_pos, scroll_x, scroll_y, cursor_col,
      cursor_row, cursor_initialized, cursor_style, focus_path>>

vars ==
    <<components, parent, children, rects, formatting, focus, dirty,
      pending_initialization, cursor_pos, scroll_x, scroll_y, cursor_col,
      cursor_row, cursor_initialized, cursor_style, focus_path,
      overflow_checks, panicked, last_call, expanded, rendered, composited, placed, updated, resolved, drawn_at>>

root == 0

\* the tree as one value, for the methods below; what a call renders,
\* composites and places is collected from nothing.  io_fails is the write at
\* which the terminal of this call fails (<<>> for none), io_failed whether
\* it did, and io_error the Err on its way up
Tree ==
    [components |-> components, parent |-> parent, children |-> children,
     rects |-> rects, formatting |-> formatting, focus |-> focus,
     dirty |-> dirty, pending_initialization |-> pending_initialization,
     cursor_pos |-> cursor_pos, scroll_x |-> scroll_x, scroll_y |-> scroll_y,
     cursor_col |-> cursor_col, cursor_row |-> cursor_row,
     cursor_initialized |-> cursor_initialized, cursor_style |-> cursor_style,
     focus_path |-> focus_path, expanded |-> expanded, rendered |-> {},
     composited |-> {}, placed |-> {},
     updated |-> <<>>, resolved |-> FALSE, drawn_at |-> {}, panic |-> FALSE,
     io_fails |-> <<>>, io_failed |-> FALSE, io_error |-> FALSE]

\* the tree after a method ran
SetTree(t) ==
    /\ components' = t.components
    /\ parent' = t.parent
    /\ children' = t.children
    /\ rects' = t.rects
    /\ formatting' = t.formatting
    /\ focus' = t.focus
    /\ dirty' = t.dirty
    /\ pending_initialization' = t.pending_initialization
    /\ cursor_pos' = t.cursor_pos
    /\ scroll_x' = t.scroll_x
    /\ scroll_y' = t.scroll_y
    /\ cursor_col' = t.cursor_col
    /\ cursor_row' = t.cursor_row
    /\ cursor_initialized' = t.cursor_initialized
    /\ cursor_style' = t.cursor_style
    /\ focus_path' = t.focus_path
    /\ expanded' = t.expanded
    /\ rendered' = t.rendered
    /\ composited' = t.composited
    /\ placed' = t.placed
    /\ updated' = t.updated
    /\ resolved' = t.resolved
    /\ drawn_at' = t.drawn_at
    /\ panicked' = t.panic

\* the tree right after construction
SetTreeInit(t) ==
    /\ components = t.components
    /\ parent = t.parent
    /\ children = t.children
    /\ rects = t.rects
    /\ formatting = t.formatting
    /\ focus = t.focus
    /\ dirty = t.dirty
    /\ pending_initialization = t.pending_initialization
    /\ cursor_pos = t.cursor_pos
    /\ scroll_x = t.scroll_x
    /\ scroll_y = t.scroll_y
    /\ cursor_col = t.cursor_col
    /\ cursor_row = t.cursor_row
    /\ cursor_initialized = t.cursor_initialized
    /\ cursor_style = t.cursor_style
    /\ focus_path = t.focus_path
    /\ expanded = t.expanded
    /\ rendered = t.rendered
    /\ composited = t.composited
    /\ placed = t.placed
    /\ updated = t.updated
    /\ resolved = t.resolved
    /\ drawn_at = t.drawn_at
    /\ panicked = t.panic

NodeCount(t) == Len(t.components)
Ids(t) == 0..(NodeCount(t) - 1)

\* ComponentTree::mark_dirty; dirty holds no id twice, its order is never read
mark_dirty(t, id) == [t EXCEPT !.dirty = @ \cup {id}]

\* ComponentTree::is_dirty
is_dirty(t, id) == id \in t.dirty

\* ComponentTree::clear_dirty
clear_dirty(t) == [t EXCEPT !.dirty = {}]

\* ComponentTree::children: None for an id outside the arena, read as no children
children_of(t, id) == Get(t.children, id, <<>>)

\* ComponentTree::parent flattened: NoParent for the root and for a missing id
parent_of(t, id) == Get(t.parent, id, NoParent)

fmt_of(t, id) == Get(t.formatting, id, FormattingDefault)

(***************************************************************************)
(* ComponentTree::new                                                      *)
(***************************************************************************)
new(root_node) ==
    [components |-> <<root_node>>, parent |-> <<NoParent>>, children |-> << <<>> >>,
     rects |-> <<RectEmpty>>, formatting |-> <<FormattingDefault>>, focus |-> 0,
     dirty |-> {0}, pending_initialization |-> <<0>>, cursor_pos |-> <<>>,
     scroll_x |-> <<0>>, scroll_y |-> <<0>>, cursor_col |-> <<0>>,
     cursor_row |-> <<0>>, cursor_initialized |-> <<FALSE>>,
     cursor_style |-> <<"Block">>, focus_path |-> <<0>>, expanded |-> <<0>>,
     rendered |-> {}, composited |-> {}, placed |-> {},
     updated |-> <<>>, resolved |-> FALSE, drawn_at |-> {}, panic |-> FALSE,
     io_fails |-> <<>>, io_failed |-> FALSE, io_error |-> FALSE]

(***************************************************************************)
(* ComponentTree::add_child_with_formatting.  The result is the tree and   *)
(* the returned value: ok with the new id, or the not-found error.         *)
(***************************************************************************)
\* faulty variants of the three definitions below:
\* a parent check that lets the next free id through, an id that repeats the
\* last one, and a child list kept at the root
parent_exists_off_by_one(t, parent_id) == parent_id <= Len(t.components)
new_child_id_repeats(t) == Len(t.components) - 1
link_child_to_root(t, parent_id, child_id) ==
    [t EXCEPT !.children = Put(@, root, Append(Get(@, root, <<>>), child_id))]

\* `parent_id >= self.components.len()` is the not-found error
parent_exists(t, parent_id) == parent_id < Len(t.components)

\* `let child_id = self.components.len()`
new_child_id(t) == Len(t.components)

\* `self.children.get_mut(parent_id)`: push the child onto its parent's list
link_child(t, parent_id, child_id) ==
    [t EXCEPT !.children = Put(@, parent_id, Append(Get(@, parent_id, <<>>), child_id))]

\* a faulty variant of mark_for_initialization: Frames are queued as well
mark_for_initialization_all(t, child_id, is_frame) ==
    [t EXCEPT !.pending_initialization = Append(@, child_id)]

\* the new node is queued for its children() call, unless it is a Frame
mark_for_initialization(t, child_id, is_frame) ==
    IF ~is_frame
    THEN [t EXCEPT !.pending_initialization = Append(@, child_id)]
    ELSE t

add_child_with_formatting(t, parent_id, child, fmt) ==
    IF ~parent_exists(t, parent_id)
    THEN [tree |-> t, ok |-> FALSE, id |-> NoParent]
    ELSE
        LET child_id == new_child_id(t)
            is_frame == child.kind = "Frame"
            t1 == [t EXCEPT
                     !.components = Append(@, child),
                     !.parent = Append(@, parent_id),
                     !.rects = Append(@, RectEmpty),
                     !.formatting = Append(@, fmt),
                     !.scroll_x = Append(@, 0),
                     !.scroll_y = Append(@, 0),
                     !.children = Append(@, <<>>),
                     !.cursor_col = Append(@, 0),
                     !.cursor_row = Append(@, 0),
                     !.cursor_initialized = Append(@, FALSE),
                     !.cursor_style = Append(@, "Block"),
                     !.expanded = Append(@, 0)]
            t2 == IF ~is_frame THEN mark_dirty(t1, child_id) ELSE t1
            t3 == IF fmt.request_focus THEN [t2 EXCEPT !.focus = child_id] ELSE t2
            t4 == link_child(t3, parent_id, child_id)
            t5 == mark_for_initialization(t4, child_id, is_frame)
        IN [tree |-> t5, ok |-> TRUE, id |-> child_id]

\* ComponentTree::add_child: the component's default formatting
add_child(t, parent_id, child) ==
    add_child_with_formatting(t, parent_id, child, child.fmt)

(***************************************************************************)
(* TerminalBuffer (tui/terminal_buffer.rs): the recorded commands are      *)
(* "P" Print(char), "N" Newline, "F" SetForeground, "B" SetBackground and  *)
(* "C" Clear.                                                              *)
(***************************************************************************)
\* TerminalBuffer::write: one Print per character
write(buffer, len) == buffer \o Repeat("P", len)

\* TerminalBuffer::newline
newline(buffer) == Append(buffer, "N")

\* the loop of TerminalBuffer::measure_content over the commands from k on
RECURSIVE measure_loop(_, _, _, _, _, _)
measure_loop(buffer, bw, k, width, height, current_line_width) ==
    IF k > Len(buffer) THEN <<width, height>>
    ELSE IF buffer[k] = "P"
    THEN Bind(IF current_line_width + 1 > bw
              THEN <<Max(width, 1), height + 1, 1>>
              ELSE <<Max(width, current_line_width + 1), height, current_line_width + 1>>,
              LAMBDA n : measure_loop(buffer, bw, k + 1, n[1], n[2], n[3]))
    ELSE IF buffer[k] = "N"
    THEN measure_loop(buffer, bw, k + 1, width, height + 1, 0)
    ELSE measure_loop(buffer, bw, k + 1, width, height, current_line_width)

\* a faulty variant of measure_content: content that never wraps at the width
measure_content_unwrapped(buffer, bw) ==
    IF buffer = <<>> THEN <<0, 0>>
    ELSE measure_loop(buffer, U16Max, 1, 0, 1, 0)

\* a faulty variant of measure_content: no special case for the empty buffer
measure_content_of_empty_row(buffer, bw) == measure_loop(buffer, bw, 1, 0, 1, 0)

\* TerminalBuffer::measure_content of a buffer of declared width bw
measure_content(buffer, bw) ==
    IF buffer = <<>> THEN <<0, 0>>
    ELSE measure_loop(buffer, bw, 1, 0, 1, 0)

(***************************************************************************)
(* Component::render of the built-in components and of a user component.   *)
(***************************************************************************)
\* TextComponent::gutter_width: the digits of the line count, divider, space
gutter_width(comp) == (IF Len(comp.lines) < 10 THEN 1 ELSE 2) + 2

\* text.rs Line::render of a Content::Single line (skip_lines = 0, max_rows > 0)
line_render(buffer, comp, line) ==
    newline(write(write(write(write(buffer \o <<"B", "F">>, 1) \o <<"B", "F">>,
        saturating_sub(gutter_width(comp), 2)) \o <<"B", "F">>, 1), comp.lines[line]))

\* the loop of TextComponent::render from line `line` on (every line is one row)
RECURSIVE text_render_loop(_, _, _, _, _, _)
text_render_loop(buffer, comp, bh, start_at, line, buffer_rows_used) ==
    IF line > Len(comp.lines) THEN buffer
    ELSE IF (line - 1) + 1 <= start_at
    THEN text_render_loop(buffer, comp, bh, start_at, line + 1, buffer_rows_used)
    ELSE IF saturating_sub(bh, buffer_rows_used) = 0 THEN buffer
    ELSE IF buffer_rows_used + 1 >= bh THEN line_render(buffer, comp, line)
    ELSE Bind(line_render(buffer, comp, line), LAMBDA next :
              text_render_loop(next, comp, bh, start_at, line + 1, buffer_rows_used + 1))

\* debug.rs DebugComponent::render: bh rows of bw blanks
RECURSIVE debug_rows(_, _, _)
debug_rows(buffer, bw, rows_left) ==
    IF rows_left = 0 THEN buffer
    ELSE Bind(newline(write(buffer, bw)), LAMBDA next : debug_rows(next, bw, rows_left - 1))

\* ComponentNode::render into a buffer of bw x bh whose scroll offset is sy
component_render(comp, bw, bh, sy) ==
    CASE comp.kind = "Frame" -> <<>>
      [] comp.kind = "Status" -> write(<<"B", "F">>, bw)
      [] comp.kind = "Text" -> text_render_loop(<<>>, comp, bh, sy, 1, 0)
      [] comp.kind = "Debug" -> Append(debug_rows(<<"B">>, bw, bh), "B")
      [] OTHER -> comp.cmds

(***************************************************************************)
(* Measuring (tree.rs).                                                    *)
(***************************************************************************)
\* ComponentTree::measure_component
RECURSIVE measure_component(_, _, _, _)
RECURSIVE measure_children(_, _, _, _, _, _, _)
measure_children(t, ids, k, max_width, max_height, mode, acc) ==
    IF k > Len(ids) THEN acc
    ELSE Bind(measure_component(t, ids[k], max_width, max_height), LAMBDA m :
         Bind(IF mode = "VerticalSplit"
              THEN <<Max(acc[1], m[1]), saturating_add(acc[2], m[2])>>
              ELSE <<saturating_add(acc[1], m[1]), Max(acc[2], m[2])>>, LAMBDA next :
         measure_children(t, ids, k + 1, max_width, max_height, mode, next)))

measure_component(t, id, max_width, max_height) ==
    IF children_of(t, id) # <<>>
    THEN measure_children(t, children_of(t, id), 1, max_width, max_height,
                          fmt_of(t, id).layout_mode, <<0, 0>>)
    ELSE IF id < Len(t.components)
    THEN measure_content(component_render(t.components[id + 1], max_width, max_height, 0),
                         max_width)
    ELSE <<0, 0>>

\* ComponentTree::measure_logical_bounds
RECURSIVE measure_logical_bounds(_, _)
RECURSIVE logical_children(_, _, _, _, _)
logical_children(t, ids, k, mode, acc) ==
    IF k > Len(ids) THEN acc
    ELSE Bind(measure_logical_bounds(t, ids[k]), LAMBDA m :
         Bind(IF mode = "VerticalSplit"
              THEN <<Max(acc[1], m[1]), saturating_add(acc[2], m[2])>>
              ELSE <<saturating_add(acc[1], m[1]), Max(acc[2], m[2])>>, LAMBDA next :
         logical_children(t, ids, k + 1, mode, next)))

measure_logical_bounds(t, id) ==
    IF children_of(t, id) # <<>>
    THEN logical_children(t, children_of(t, id), 1, fmt_of(t, id).layout_mode, <<0, 0>>)
    ELSE IF id < Len(t.components)
    THEN measure_content(component_render(t.components[id + 1], U16Max, U16Max, 0), U16Max)
    ELSE <<0, 0>>

\* ComponentTree::build_focus_path: the parent chain, root first
RECURSIVE build_focus_path(_, _)
build_focus_path(t, target_id) ==
    IF parent_of(t, target_id) = NoParent THEN <<target_id>>
    ELSE Append(build_focus_path(t, parent_of(t, target_id)), target_id)

(***************************************************************************)
(* ComponentCommands (tree.rs): the command object handed to a component.  *)
(* A command context is [t |-> the tree, self_id |-> the node it is scoped *)
(* to]; every command returns the context it leaves.                       *)
(***************************************************************************)
Commands(t, id) == [t |-> t, self_id |-> id]

\* ComponentCommands::has_focus: membership in the focus path
has_focus(c) == \E k \in 1..Len(c.t.focus_path) : c.t.focus_path[k] = c.self_id

\* a faulty variant of mark_scrolled: only the container is marked
mark_scrolled_container_only(t, id) == mark_dirty(t, id)

\* ComponentCommands::set_scroll_y
set_scroll_y(c, offset) ==
    [c EXCEPT !.t = [@ EXCEPT !.scroll_y = Put(@, c.self_id, offset)]]

\* ComponentCommands::get_scroll_y
get_scroll_y(c) == Get(c.t.scroll_y, c.self_id, 0)

\* ComponentCommands::get_cursor: <<col, row>> relative to the scroll offset
get_cursor(c) ==
    <<saturating_sub(Get(c.t.cursor_col, c.self_id, 0), Get(c.t.scroll_x, c.self_id, 0)),
      saturating_sub(Get(c.t.cursor_row, c.self_id, 0), Get(c.t.scroll_y, c.self_id, 0))>>

\* ComponentCommands::set_cursor_style
set_cursor_style(c, style) ==
    [c EXCEPT !.t = [@ EXCEPT !.cursor_style = Put(@, c.self_id, style)]]

\* ComponentCommands::clamp_cursor_col; u16::clamp panics when min > max
clamp_cursor_col(c, min_col, max_col) ==
    IF min_col > max_col THEN [c EXCEPT !.t = [@ EXCEPT !.panic = TRUE]]
    ELSE LET col == Get(c.t.cursor_col, c.self_id, 0)
             t1 == [c.t EXCEPT !.cursor_col =
                      Put(@, c.self_id, Max(min_col, Min(col, max_col)))]
         IN [c EXCEPT !.t = mark_dirty(t1, c.self_id)]

\* a faulty variant of set_cursor: the requested position is stored as it is
set_cursor_unclamped(c, col, row) ==
    LET t1 == [c.t EXCEPT !.cursor_col = Put(@, c.self_id, col),
                          !.cursor_row = Put(@, c.self_id, row)]
    IN [c EXCEPT !.t = mark_dirty(t1, c.self_id)]

\* ComponentCommands::set_cursor
set_cursor(c, col, row) ==
    Bind(measure_logical_bounds(c.t, c.self_id), LAMBDA bounds :
        LET max_col == saturating_sub(bounds[1], 1)
            max_row == saturating_sub(bounds[2], 1)
            clamped_col == Min(Max(col, 0), max_col)
            clamped_row == Min(Max(row, 0), max_row)
            t1 == [c.t EXCEPT !.cursor_col = Put(@, c.self_id, clamped_col),
                              !.cursor_row = Put(@, c.self_id, clamped_row)]
        IN [c EXCEPT !.t = mark_dirty(t1, c.self_id)])

\* ComponentCommands::try_enter_component
RECURSIVE try_enter_component(_, _)
try_enter_component(t, component_id) ==
    \/ fmt_of(t, component_id).focusable
    \/ \E k \in 1..Len(children_of(t, component_id)) :
           try_enter_component(t, children_of(t, component_id)[k])

\* the first (forward) or last (backward) child that try_enter_component accepts,
\* NoParent when there is none
first_enterable(t, ids, forward) ==
    LET hits == {k \in 1..Len(ids) : try_enter_component(t, ids[k])}
    IN IF hits = {} THEN NoParent
       ELSE IF forward THEN ids[CHOOSE k \in hits : \A j \in hits : k <= j]
       ELSE ids[CHOOSE k \in hits : \A j \in hits : k >= j]

\* ComponentCommands::find_focusable_descendant: both branches (focusable or not)
\* descend into the first child that can be entered, else return the node itself
RECURSIVE find_focusable_descendant(_, _)
find_focusable_descendant(t, component_id) ==
    LET next == first_enterable(t, children_of(t, component_id), TRUE)
    IN IF next # NoParent THEN find_focusable_descendant(t, next) ELSE component_id

\* ComponentCommands::find_focusable_descendant_last
RECURSIVE find_focusable_descendant_last(_, _)
find_focusable_descendant_last(t, component_id) ==
    LET next == first_enterable(t, children_of(t, component_id), FALSE)
    IN IF next # NoParent THEN find_focusable_descendant_last(t, next) ELSE component_id

\* the tail shared by set_focus_with_descent and set_focus_with_descent_to_last:
\* the command object itself is re-scoped to the new focus
set_focus_to(c, focus_id) ==
    LET t1 == [c.t EXCEPT !.focus = focus_id,
                          !.focus_path = build_focus_path(c.t, focus_id)]
    IN [t |-> mark_dirty(t1, focus_id), self_id |-> focus_id]

\* ComponentCommands::set_focus_with_descent
set_focus_with_descent(c, component_id) ==
    Bind(find_focusable_descendant(c.t, component_id), LAMBDA focus_id :
         set_focus_to(c, focus_id))

\* ComponentCommands::set_focus_with_descent_to_last
set_focus_with_descent_to_last(c, component_id) ==
    Bind(find_focusable_descendant_last(c.t, component_id), LAMBDA focus_id :
         set_focus_to(c, focus_id))

\* a faulty variant of enter_sibling: the new focus always starts at its origin
enter_sibling_at_origin(c2, parent_id, parent_col, is_moving_up) ==
    [c2 EXCEPT !.t = mark_dirty(
        [c2.t EXCEPT !.cursor_col = Put(@, c2.t.focus, 0),
                     !.cursor_row = Put(@, c2.t.focus, 0)], parent_id)]

\* navigate_siblings, after the focus moved: the new focus takes the parent's
\* column, clamped, and the row of the edge it was entered from
enter_sibling(c2, parent_id, parent_col, is_moving_up) ==
    Bind(measure_logical_bounds(c2.t, c2.t.focus), LAMBDA bounds :
        LET focus_id == c2.t.focus
            max_col == saturating_sub(bounds[1], 1)
            max_row == saturating_sub(bounds[2], 1)
            clamped_col == Min(parent_col, max_col)
            target_row == IF is_moving_up THEN max_row ELSE 0
            t3 == [c2.t EXCEPT !.cursor_col = Put(@, focus_id, clamped_col),
                               !.cursor_row = Put(@, focus_id, target_row)]
        IN [c2 EXCEPT !.t = mark_dirty(t3, parent_id)])

\* ComponentCommands::navigate_siblings
navigate_siblings(c, parent_id, col_delta, row_delta) ==
    LET siblings == children_of(c.t, parent_id)
        parent_col == Get(c.t.cursor_col, parent_id, 0)
        parent_row == Get(c.t.cursor_row, parent_id, 0)
        current_pos == Min(parent_row, Len(siblings) - 1)
        forward == row_delta > 0 \/ col_delta > 0
        backward == row_delta < 0 \/ col_delta < 0
        next_pos == IF forward THEN Min(current_pos + 1, Len(siblings) - 1)
                    ELSE saturating_sub(current_pos, 1)
    IN IF siblings = <<>> \/ ~(forward \/ backward) \/ next_pos = current_pos THEN c
       ELSE
        LET next_id == siblings[next_pos + 1]
            c1 == [c EXCEPT !.t = [@ EXCEPT !.cursor_row = Put(@, parent_id, next_pos)]]
        IN IF ~try_enter_component(c1.t, next_id) THEN c1
           ELSE Bind(IF backward
                     THEN set_focus_with_descent_to_last(c1, next_id)
                     ELSE set_focus_with_descent(c1, next_id), LAMBDA c2 :
                enter_sibling(c2, parent_id, parent_col, backward))

\* the backtracking loop of move_cursor: the nearest ancestor of `id` whose layout
\* mode matches the movement axis, NoParent when there is none
RECURSIVE navigation_ancestor(_, _, _, _)
navigation_ancestor(t, id, col_delta, row_delta) ==
    LET p == parent_of(t, id)
        mode == fmt_of(t, p).layout_mode
    IN IF p = NoParent THEN NoParent
       ELSE IF \/ (mode = "VerticalSplit" /\ col_delta = 0 /\ row_delta # 0)
               \/ (mode = "HorizontalSplit" /\ col_delta # 0 /\ row_delta = 0)
       THEN p
       ELSE navigation_ancestor(t, p, col_delta, row_delta)

\* u16 saturating move of a coordinate by an i32 delta
moved(v, delta) ==
    IF delta > 0 THEN saturating_add(v, delta)
    ELSE IF delta < 0 THEN saturating_sub(v, 0 - delta)
    ELSE v

\* ComponentCommands::move_cursor
move_cursor(c, col_delta, row_delta) ==
    Bind(IF c.t.focus_path # <<>>
         THEN c.t.focus_path[Len(c.t.focus_path)] ELSE c.self_id, LAMBDA current_id :
    Bind(measure_logical_bounds(c.t, current_id), LAMBDA bounds :
    Bind(navigation_ancestor(c.t, current_id, col_delta, row_delta), LAMBDA ancestor :
        LET fmt == fmt_of(c.t, current_id)
            current_col == Get(c.t.cursor_col, current_id, 0)
            current_row == Get(c.t.cursor_row, current_id, 0)
            max_col == saturating_sub(bounds[1], 1)
            max_row == IF fmt.overflow_x = "Wrap" THEN 0
                       ELSE saturating_sub(bounds[2], 1)
            new_col == moved(current_col, col_delta)
            new_row == moved(current_row, row_delta)
            at_boundary == \/ (row_delta # 0 /\ new_row = current_row)
                           \/ (col_delta # 0 /\ new_col = current_col)
        IN IF ~at_boundary /\ new_col <= max_col /\ new_row <= max_row
           THEN [c EXCEPT !.t = mark_dirty(
                    [c.t EXCEPT !.cursor_col = Put(@, current_id, new_col),
                                !.cursor_row = Put(@, current_id, new_row)], current_id)]
           ELSE IF ancestor # NoParent
           THEN navigate_siblings(
                    [c EXCEPT !.t = [@ EXCEPT !.cursor_col =
                                       Put(@, ancestor, current_col)]],
                    ancestor, col_delta, row_delta)
           ELSE [c EXCEPT !.t = mark_dirty(
                    [c.t EXCEPT !.cursor_col = Put(@, current_id, Min(new_col, max_col)),
                                !.cursor_row = Put(@, current_id, Min(new_row, max_row))],
                    current_id)])))

(***************************************************************************)
(* Events (event.rs): Key(code), Resize, Mouse(kind, column, row).         *)
(***************************************************************************)
Event(kind, code, col, row) == [kind |-> kind, code |-> code, col |-> col, row |-> row]
Key(code) == Event("Key", code, 0, 0)
Motions == {"h", "j", "k", "l"}
col_delta_of(code) == IF code = "l" THEN 1 ELSE IF code = "h" THEN -1 ELSE 0
row_delta_of(code) == IF code = "j" THEN 1 ELSE IF code = "k" THEN -1 ELSE 0

\* ComponentCommands::global_to_local
global_to_local(c, global_col, global_row) ==
    LET rect == Get(c.t.rects, c.self_id, RectEmpty)
    IN <<(saturating_sub(global_col, rect.x) + Get(c.t.scroll_x, c.self_id, 0)) % U16Mod,
         (saturating_sub(global_row, rect.y) + Get(c.t.scroll_y, c.self_id, 0)) % U16Mod>>

\* TextComponent::get_line: whether `row` is a line of the document
has_line(comp, row) == row < Len(comp.lines)

\* the largest column TextComponent allows on `row` in Normal mode
text_max_col(comp, row) ==
    saturating_sub(comp.lines[row + 1] + gutter_width(comp), 1)

\* TextComponent::update in Normal mode: <<context, changed>>
text_update(comp, c, event) ==
    IF ~has_focus(c) THEN <<c, FALSE>>
    ELSE IF event.kind = "MouseDown"
    THEN LET local == global_to_local(c, event.col, event.row)
             local_col == IF has_line(comp, local[2])
                          THEN Min(local[1], text_max_col(comp, local[2]))
                          ELSE local[1]
         IN <<set_cursor(c, local_col, local[2]), FALSE>>
    ELSE IF event.kind = "Resize" THEN <<c, TRUE>>
    ELSE IF event.kind = "Key" /\ event.code \in Motions
    THEN Bind(move_cursor(c, col_delta_of(event.code), row_delta_of(event.code)),
              LAMBDA c1 :
            LET row == u16(get_cursor(c1)[2] + get_scroll_y(c1))
            IN IF has_line(comp, row)
               THEN <<clamp_cursor_col(c1, gutter_width(comp), text_max_col(comp, row)),
                      TRUE>>
               ELSE <<c1, TRUE>>)
    ELSE <<c, FALSE>>

\* editor.rs EditableText::update
nav_update(c, event) ==
    IF has_focus(c) /\ event.kind = "Key" /\ event.code \in Motions
    THEN <<move_cursor(c, col_delta_of(event.code), row_delta_of(event.code)), FALSE>>
    ELSE <<c, FALSE>>

\* ComponentNode::update: <<context, changed, the component after the call>>
component_update(comp, c, event) ==
    CASE comp.upd = "text" -> Append(text_update(comp, c, event), comp)
      [] comp.upd = "nav" -> Append(nav_update(c, event), comp)
      [] comp.upd = "select" ->
            <<c, comp.selected # has_focus(c), [comp EXCEPT !.selected = has_focus(c)]>>
      [] OTHER -> <<c, FALSE, comp>>

\* ComponentTree::update_node: the node first, then its children in order
RECURSIVE update_node(_, _, _)
RECURSIVE update_children(_, _, _, _)

\* a faulty variant of update_children: only the first child is visited
update_children_first_only(t, ids, k, event) ==
    IF k > 1 \/ k > Len(ids) \/ t.panic THEN t ELSE update_node(t, ids[k], event)

\* the loop of update_node over the children, from child k on
update_children(t, ids, k, event) ==
    IF k > Len(ids) \/ t.panic THEN t
    ELSE Bind(update_node(t, ids[k], event), LAMBDA t1 :
              update_children(t1, ids, k + 1, event))

\* update_node: the node's own update, and mark_dirty when it reports a change
update_self(t, id, event) ==
    Bind(component_update(t.components[id + 1], Commands(t, id), event), LAMBDA r :
        LET t1 == [r[1].t EXCEPT !.components = Put(@, id, r[3]),
                                 !.updated = Append(@, id)]
        IN IF r[2] /\ ~t1.panic THEN mark_dirty(t1, id) ELSE t1)

update_node(t, id, event) ==
    IF t.panic THEN t
    ELSE IF id < Len(t.components)
    THEN Bind(update_self(t, id, event), LAMBDA t2 :
              update_children(t2, children_of(t2, id), 1, event))
    ELSE update_children(t, children_of(t, id), 1, event)

\* ComponentNode::initialize_children of node comp_id: a Frame has none; every
\* other component's children() is invoked and adds its kids under itself
RECURSIVE add_kids(_, _, _, _)
add_kids(t, self_id, kids, k) ==
    IF k > Len(kids) THEN t
    ELSE Bind(add_child(t, self_id, ComponentOf(kids[k])).tree, LAMBDA t1 :
              add_kids(t1, self_id, kids, k + 1))

initialize_children(t, comp_id) ==
    LET comp == t.components[comp_id + 1]
    IN IF comp.kind = "Frame" THEN [tree |-> t, ok |-> TRUE]
       ELSE [tree |-> add_kids([t EXCEPT !.expanded[comp_id + 1] = @ + 1],
                               comp_id, comp.kids, 1),
             ok |-> ~comp.fails]

\* ComponentTree::find_deepest_focusable_descendant, with
\* is_focusable_or_has_focusable_child deciding which child to enter
RECURSIVE is_focusable_or_has_focusable_child(_, _)
is_focusable_or_has_focusable_child(t, component_id) ==
    \/ fmt_of(t, component_id).focusable
    \/ \E k \in 1..Len(children_of(t, component_id)) :
           is_focusable_or_has_focusable_child(t, children_of(t, component_id)[k])

RECURSIVE find_deepest_focusable_descendant(_, _)
find_deepest_focusable_descendant(t, component_id) ==
    LET ids == children_of(t, component_id)
        hits == {k \in 1..Len(ids) : is_focusable_or_has_focusable_child(t, ids[k])}
    IN IF hits = {} THEN component_id
       ELSE find_deepest_focusable_descendant(t,
                ids[CHOOSE k \in hits : \A j \in hits : k <= j])

\* ComponentTree::ensure_focus_descends_to_leaf
ensure_focus_descends_to_leaf(t) ==
    Bind(find_deepest_focusable_descendant(t, t.focus), LAMBDA focus_id :
        IF focus_id # t.focus
        THEN mark_dirty([t EXCEPT !.focus = focus_id,
                                  !.focus_path = build_focus_path(t, focus_id)], focus_id)
        ELSE t)

\* ComponentTree::initialize_pending_components: the inner loop over one batch
\* taken from the queue; an Err leaves the rest of the batch behind
RECURSIVE initialize_batch(_, _, _)
initialize_batch(t, pending, k) ==
    IF k > Len(pending) THEN [tree |-> t, ok |-> TRUE]
    ELSE Bind(initialize_children(t, pending[k]), LAMBDA r :
              IF r.ok THEN initialize_batch(r.tree, pending, k + 1) ELSE r)

RECURSIVE initialize_pending_components(_)
initialize_pending_components(t) ==
    IF t.pending_initialization = <<>>
    THEN [tree |-> ensure_focus_descends_to_leaf(t), ok |-> TRUE]
    ELSE Bind(initialize_batch([t EXCEPT !.pending_initialization = <<>>],
                               t.pending_initialization, 1), LAMBDA r :
              IF r.ok THEN initialize_pending_components(r.tree) ELSE r)

\* ComponentTree::find_scrollable_container_at: NoParent for None
RECURSIVE scrollable_ancestor(_, _)
scrollable_ancestor(t, component_id) ==
    IF fmt_of(t, component_id).overflow_y = "Scroll" /\ children_of(t, component_id) # <<>>
    THEN component_id
    ELSE IF parent_of(t, component_id) # NoParent
    THEN scrollable_ancestor(t, parent_of(t, component_id))
    ELSE NoParent

find_scrollable_container_at(t, col, row) ==
    LET hits == {id \in 0..(Len(t.rects) - 1) : rect_contains(t.rects[id + 1], col, row)}
    IN IF hits = {} THEN NoParent
       ELSE scrollable_ancestor(t, CHOOSE id \in hits : \A j \in hits : id >= j)

\* scroll_by: the container and every direct child are marked dirty
mark_scrolled(t, id) ==
    [mark_dirty(t, id) EXCEPT !.dirty = @ \cup {children_of(t, id)[k] :
                                                   k \in 1..Len(children_of(t, id))}]

\* ComponentTree::scroll_by
scroll_by(t, id, amount) ==
    LET current_scroll == Get(t.scroll_y, id, 0)
        max_scroll == saturating_sub(Len(children_of(t, id)), 1)
        new_scroll == IF amount > 0
                      THEN Max(Min(current_scroll + amount, max_scroll), 0)
                      ELSE Max(current_scroll + amount, 0)
        t1 == [t EXCEPT !.scroll_y = VecInsert(@, id, new_scroll)]
        t3 == mark_scrolled(t1, id)
        visible_height == Get(t.rects, id, RectEmpty).height
        cursor_tree_row == Get(t.cursor_row, id, 0)
    IN IF new_scroll = current_scroll THEN t
       ELSE IF cursor_tree_row < new_scroll
       THEN [t3 EXCEPT !.cursor_row = Put(@, id, new_scroll % U16Mod)]
       ELSE IF cursor_tree_row >= new_scroll + visible_height
       THEN [t3 EXCEPT !.cursor_row =
               Put(@, id, (new_scroll + saturating_sub(visible_height, 1)) % U16Mod)]
       ELSE t3

\* ComponentTree::update
update(t, event) ==
    CASE event.kind = "MouseDown" ->
            [tree |-> IF rect_contains(Get(t.rects, t.focus, RectEmpty), event.col, event.row)
                      THEN update_node(t, root, event) ELSE t,
             ok |-> TRUE]
      [] event.kind \in {"ScrollUp", "ScrollDown"} ->
            LET container_id == find_scrollable_container_at(t, event.col, event.row)
            IN [tree |-> IF container_id # NoParent
                         THEN scroll_by(t, container_id,
                                        IF event.kind = "ScrollUp" THEN -1 ELSE 1)
                         ELSE t,
                ok |-> TRUE]
      [] OTHER ->
            Bind(update_node(t, root, event), LAMBDA t1 :
                 IF t1.panic THEN [tree |-> t1, ok |-> FALSE]
                 ELSE initialize_pending_components(t1))

(***************************************************************************)
(* Layout (tree.rs).  The u16 arithmetic of the code panics on overflow in *)
(* a build with overflow checks and wraps in a build without; a panic is   *)
(* recorded in the tree's panic flag.                                      *)
(***************************************************************************)
\* ComponentTree::calculate_size: the value the arithmetic yields when it wraps
calculate_size(measurement, available) ==
    CASE measurement.t = "Cell" -> Min(measurement.n, available)
      [] measurement.t = "Percent" -> u16(available * Min(measurement.n, 100)) \div 100
      [] OTHER -> available

\* ComponentTree::calculate_size: whether `available * percent` overflows u16
calculate_size_overflows(measurement, available) ==
    measurement.t = "Percent" /\ Overflowed(available * Min(measurement.n, 100))

\* a panic raised by an overflowing computation of x, in a build that checks
Panics(t, overflowed) == [t EXCEPT !.panic = @ \/ (overflow_checks /\ overflowed)]

\* pass 1 of layout_children_*: the extent of child k on the governing axis
first_pass_extent(t, id, axis, available_width, available_height) ==
    LET m == IF axis = "x" THEN fmt_of(t, id).preferred_width
             ELSE fmt_of(t, id).preferred_height
        measured == measure_component(t, id, available_width, available_height)
    IN CASE m.t = "Fill" -> 0
         [] m.t = "Content" -> IF axis = "x" THEN measured[1] ELSE measured[2]
         [] OTHER -> calculate_size(m, IF axis = "x" THEN available_width
                                       ELSE available_height)

is_fill(t, id, axis) ==
    (IF axis = "x" THEN fmt_of(t, id).preferred_width
     ELSE fmt_of(t, id).preferred_height).t = "Fill"

\* used_width / used_height: the saturating sum over the non-Fill children
RECURSIVE used_extent(_, _, _)
used_extent(extents, fills, k) ==
    IF k = 0 THEN 0
    ELSE IF fills[k] THEN used_extent(extents, fills, k - 1)
    ELSE saturating_add(used_extent(extents, fills, k - 1), extents[k])

\* a faulty variant of fill_extent: the remainder of the division is handed out
fill_extent_rounded_up(remaining, fill_count) ==
    IF fill_count > 0 THEN (remaining + fill_count - 1) \div fill_count ELSE 0

\* fill_width / fill_height: the share of each Fill child
fill_extent(remaining, fill_count) ==
    IF fill_count > 0 THEN remaining \div fill_count ELSE 0

\* passes 1 and 2: the extents of all children on the governing axis
governing_extents(t, child_ids, axis, available_width, available_height) ==
    Bind([k \in 1..Len(child_ids) |->
            first_pass_extent(t, child_ids[k], axis, available_width, available_height)],
         LAMBDA extents :
    Bind([k \in 1..Len(child_ids) |-> is_fill(t, child_ids[k], axis)], LAMBDA fills :
        LET fill_count == Cardinality({k \in 1..Len(child_ids) : fills[k]})
            available == IF axis = "x" THEN available_width ELSE available_height
            remaining == saturating_sub(available,
                                        used_extent(extents, fills, Len(child_ids)))
        IN Bind(fill_extent(remaining, fill_count), LAMBDA fill :
                [k \in 1..Len(child_ids) |->
                   IF extents[k] = 0 /\ fills[k] THEN fill ELSE extents[k]])))

\* pass 1 panics when a Cell/Percent extent overflows
governing_overflows(t, child_ids, axis, available) ==
    \E k \in 1..Len(child_ids) :
        calculate_size_overflows(
            IF axis = "x" THEN fmt_of(t, child_ids[k]).preferred_width
            ELSE fmt_of(t, child_ids[k]).preferred_height, available)

RECURSIVE layout_node(_, _, _, _)
RECURSIVE horizontal_place(_, _, _, _, _, _, _, _, _)
RECURSIVE vertical_place(_, _, _, _, _, _, _, _, _)

\* pass 3 of layout_children_horizontal from child i on
horizontal_place(t, child_ids, widths, i, available_width, available_height, current_x, current_y, max_height_in_row) ==
    IF i > Len(child_ids) \/ t.panic THEN t
    ELSE
     Bind(IF fmt_of(t, child_ids[i]).preferred_height.t = "Content"
          THEN measure_component(t, child_ids[i], widths[i], available_height)[2]
          ELSE calculate_size(fmt_of(t, child_ids[i]).preferred_height, available_height),
          LAMBDA component_height :
     LET child_id == child_ids[i]
         fmt == fmt_of(t, child_id)
         component_width == widths[i]
         t0 == Panics(Panics(t, calculate_size_overflows(fmt.preferred_height,
                                                         available_height)),
                      Overflowed(current_x + component_width))
         fits_on_line == u16(current_x + component_width) <= available_width
         wraps == ~fits_on_line /\ fmt.overflow_x = "Wrap"
         x == IF wraps THEN 0 ELSE current_x
         y == IF wraps THEN u16(current_y + max_height_in_row) ELSE current_y
         row_height == IF wraps THEN 1 ELSE max_height_in_row
         t1 == Panics(Panics(t0, wraps /\ Overflowed(current_y + max_height_in_row)),
                      y < available_height /\ Overflowed(x + component_width))
         t2 == [t1 EXCEPT !.rects = Put(@, child_id,
                                        Rect(x, y, component_width, component_height)),
                          !.placed = @ \cup {child_id}]
     IN IF t1.panic \/ y >= available_height THEN t1
        ELSE Bind(layout_node(t2, child_id, component_width, component_height),
                  LAMBDA t3 :
             horizontal_place(t3, child_ids, widths, i + 1, available_width,
                              available_height, u16(x + component_width), y,
                              Max(row_height, component_height))))

\* ComponentTree::layout_children_horizontal
layout_children_horizontal(t, child_ids, available_width, available_height) ==
    Bind(governing_extents(t, child_ids, "x", available_width, available_height),
         LAMBDA widths :
    Bind(Panics(t, governing_overflows(t, child_ids, "x", available_width)),
         LAMBDA t0 :
         horizontal_place(t0, child_ids, widths, 1, available_width, available_height,
                          0, 0, 1)))

\* pass 3 of layout_children_vertical from child i on
vertical_place(t, child_ids, heights, i, available_width, available_height, current_x, current_y, max_width_in_column) ==
    IF i > Len(child_ids) \/ t.panic THEN t
    ELSE
     Bind(IF fmt_of(t, child_ids[i]).preferred_width.t = "Content"
          THEN measure_component(t, child_ids[i], available_width, available_height)[1]
          ELSE calculate_size(fmt_of(t, child_ids[i]).preferred_width, available_width),
          LAMBDA component_width :
     LET child_id == child_ids[i]
         fmt == fmt_of(t, child_id)
         component_height == heights[i]
         t0 == Panics(Panics(t, calculate_size_overflows(fmt.preferred_width,
                                                         available_width)),
                      Overflowed(current_y + component_height))
         fits_in_column == u16(current_y + component_height) <= available_height
         wraps == ~fits_in_column /\ fmt.overflow_y = "Wrap"
         y == IF wraps THEN 0 ELSE current_y
         x == IF wraps THEN u16(current_x + max_width_in_column) ELSE current_x
         column_width == IF wraps THEN 1 ELSE max_width_in_column
         t1 == Panics(Panics(t0, wraps /\ Overflowed(current_x + max_width_in_column)),
                      x < available_width /\ Overflowed(y + component_height))
         t2 == [t1 EXCEPT !.rects = Put(@, child_id,
                                        Rect(x, y, component_width, component_height)),
                          !.placed = @ \cup {child_id}]
     IN IF t1.panic \/ x >= available_width THEN t1
        ELSE Bind(layout_node(t2, child_id, component_width, component_height),
                  LAMBDA t3 :
             vertical_place(t3, child_ids, heights, i + 1, available_width,
                            available_height, x, u16(y + component_height),
                            Max(column_width, component_width))))

\* ComponentTree::layout_children_vertical
layout_children_vertical(t, child_ids, available_width, available_height) ==
    Bind(governing_extents(t, child_ids, "y", available_width, available_height),
         LAMBDA heights :
    Bind(Panics(t, governing_overflows(t, child_ids, "y", available_height)),
         LAMBDA t0 :
         vertical_place(t0, child_ids, heights, 1, available_width, available_height,
                        0, 0, 1)))

\* ComponentTree::layout_children
layout_children(t, child_ids, available_width, available_height, layout_mode) ==
    IF child_ids = <<>> THEN t
    ELSE IF layout_mode = "HorizontalSplit"
    THEN layout_children_horizontal(t, child_ids, available_width, available_height)
    ELSE layout_children_vertical(t, child_ids, available_width, available_height)

\* ComponentTree::layout_node
layout_node(t, id, available_width, available_height) ==
    LET fmt == fmt_of(t, id)
        component_width == calculate_size(fmt.preferred_width, available_width)
        component_height == calculate_size(fmt.preferred_height, available_height)
        t0 == Panics(t, \/ calculate_size_overflows(fmt.preferred_width, available_width)
                        \/ calculate_size_overflows(fmt.preferred_height, available_height))
        t1 == IF id = root
              THEN [t0 EXCEPT !.rects = Put(@, id, Rect(0, 0, component_width,
                                                        component_height)),
                              !.placed = @ \cup {id}]
              ELSE t0
    IN IF t0.panic THEN t0
       ELSE layout_children(t1, children_of(t1, id), component_width, component_height,
                            fmt.layout_mode)

\* ComponentTree::layout; a panic leaves no tree to observe, the model keeps the
\* one before the call
layout(t, width, height) ==
    Bind(layout_node(t, root, width, height), LAMBDA r :
         IF r.panic THEN [t EXCEPT !.panic = TRUE] ELSE r)

(***************************************************************************)
(* Rendering (tree.rs).  Of the terminal the model keeps which nodes had   *)
(* their render invoked and which were handed to the compositor.           *)
(***************************************************************************)
\* ComponentTree::update_focus_path
update_focus_path(t) == [t EXCEPT !.focus_path = build_focus_path(t, t.focus)]

\* ComponentTree::find_last_focusable_descendant
RECURSIVE find_last_focusable_descendant(_, _)
find_last_focusable_descendant(t, id) ==
    IF ~fmt_of(t, id).focusable THEN id
    ELSE IF children_of(t, id) # <<>>
    THEN find_last_focusable_descendant(t, children_of(t, id)[Len(children_of(t, id))])
    ELSE id

\* render_node: the loop that finds the visual row of the cursor of a wrapped node
RECURSIVE wrap_cursor(_, _, _, _)
wrap_cursor(remaining_col, visual_row, width, height) ==
    IF remaining_col < width THEN <<remaining_col, visual_row>>
    ELSE IF visual_row + 1 >= height
    THEN <<saturating_sub(width, 1), saturating_sub(height, 1)>>
    ELSE wrap_cursor(remaining_col - width, visual_row + 1, width, height)

\* a written cell is <<column, row, k>>: k is the index of the Print command
\* whose character is put there, 0 for a blank.
\* the blanks of row y from column x up to the width
RowFrom(x, y, bw) == {<<i, y, 0>> : i \in x..(bw - 1)}

\* the tail of composite_buffer_hide and composite_buffer_wrap: rows below the
\* last one drawn are cleared
clear_below(screen_y, bw, max_lines) ==
    {<<i, r, 0>> : i \in 0..(bw - 1), r \in (screen_y + 1)..(max_lines - 1)}

\* composite_buffer_hide with skip_lines = 0, from command k on: the cells of
\* the rect, relative to its corner, that a character or a blank is put to
RECURSIVE composite_buffer_hide(_, _, _, _, _, _, _)
composite_buffer_hide(buffer, bw, max_lines, k, x, screen_y, cells) ==
    IF k > Len(buffer) \/ screen_y >= max_lines
    THEN cells \cup (IF x > 0 \/ screen_y > 0 THEN RowFrom(x, screen_y, bw) ELSE {})
               \cup clear_below(screen_y, bw, max_lines)
    ELSE IF buffer[k] = "P"
    THEN IF x >= bw
         THEN composite_buffer_hide(buffer, bw, max_lines, k + 1, x, screen_y, cells)
         ELSE Bind(cells \cup {<<x, screen_y, k>>}, LAMBDA next :
                 composite_buffer_hide(buffer, bw, max_lines, k + 1, x + 1, screen_y, next))
    ELSE IF buffer[k] = "N"
    THEN Bind(cells \cup RowFrom(x, screen_y, bw), LAMBDA next :
            composite_buffer_hide(buffer, bw, max_lines, k + 1, 0, screen_y + 1, next))
    ELSE composite_buffer_hide(buffer, bw, max_lines, k + 1, x, screen_y, cells)

\* a faulty variant of composite_buffer_wrap: characters beyond the width are
\* dropped instead of wrapped
composite_buffer_wrap_clipping(buffer, bw, max_lines, k, x, screen_y, cells) ==
    composite_buffer_hide(buffer, bw, max_lines, k, x, screen_y, cells)

\* composite_buffer_wrap with skip_lines = 0, from command k on
RECURSIVE composite_buffer_wrap(_, _, _, _, _, _, _)
composite_buffer_wrap(buffer, bw, max_lines, k, x, screen_y, cells) ==
    IF k > Len(buffer) \/ screen_y >= max_lines
    THEN cells \cup RowFrom(x, screen_y, bw) \cup clear_below(screen_y, bw, max_lines)
    ELSE IF buffer[k] = "P"
    THEN LET wraps == x >= bw
             x1 == IF wraps THEN 0 ELSE x
             y1 == IF wraps THEN screen_y + 1 ELSE screen_y
         IN IF y1 >= max_lines
            THEN cells \cup RowFrom(x1, y1, bw) \cup clear_below(y1, bw, max_lines)
            ELSE Bind(cells \cup {<<x1, y1, k>>}, LAMBDA next :
                    composite_buffer_wrap(buffer, bw, max_lines, k + 1, x1 + 1, y1, next))
    ELSE IF buffer[k] = "N"
    THEN Bind(cells \cup RowFrom(x, screen_y, bw), LAMBDA next :
            composite_buffer_wrap(buffer, bw, max_lines, k + 1, 0, screen_y + 1, next))
    ELSE composite_buffer_wrap(buffer, bw, max_lines, k + 1, x, screen_y, cells)

\* render_node, for a dirty node: the buffer is composited by the policy of
\* overflow_x, and only when it holds a command at all
composite(buffer, width, height, overflow_x) ==
    IF buffer = <<>> THEN {}
    ELSE IF overflow_x = "Wrap"
    THEN composite_buffer_wrap(buffer, width, height, 1, 0, 0, {})
    ELSE composite_buffer_hide(buffer, width, height, 1, 0, 0, {})

\* render_node: the node's own part (buffer, render if dirty, composite, cursor)
render_self(t, id) ==
    LET rect == Get(t.rects, id, RectEmpty)
        fmt == fmt_of(t, id)
        t1 == [t EXCEPT !.cursor_initialized = Put(@, id, TRUE),
                        !.drawn_at = @ \cup {<<id, rect.x, rect.y>>}]
        relative_row0 == saturating_sub(Get(t.cursor_row, id, 0), Get(t.scroll_y, id, 0))
        relative_col0 == u16(saturating_sub(Get(t.cursor_col, id, 0),
                                            Get(t.scroll_x, id, 0)))
        buffer == component_render(t.components[id + 1], rect.width, rect.height,
                                   Get(t.scroll_y, id, 0))
        t2 == IF is_dirty(t1, id)
              THEN [t1 EXCEPT !.rendered = @ \cup {id},
                              !.composited = IF buffer # <<>> THEN @ \cup {id} ELSE @]
              ELSE t1
        relative == IF fmt.overflow_x = "Wrap" /\ relative_col0 >= rect.width
                    THEN wrap_cursor(relative_col0, relative_row0, rect.width, rect.height)
                    ELSE <<relative_col0, relative_row0>>
        stores == id = t.focus /\ relative[2] < rect.height /\ relative[1] < rect.width
        t3 == IF stores
              THEN Panics([t2 EXCEPT !.cursor_pos = <<u16(rect.x + relative[1]),
                                                      u16(rect.y + u16(relative[2]))>>,
                                     !.resolved = TRUE],
                          \/ Overflowed(rect.x + relative[1])
                          \/ Overflowed(rect.y + u16(relative[2])))
              ELSE t2
        writes == is_dirty(t1, id) /\ buffer # <<>>
    IN IF id >= Len(t.components) THEN t1
       ELSE IF writes /\ t.io_fails = <<"self", id>>
       THEN [t1 EXCEPT !.rendered = @ \cup {id}, !.io_failed = TRUE, !.io_error = TRUE]
       ELSE t3

\* render_node: "mark visible children as dirty" of a VerticalSplit node
RECURSIVE mark_visible(_, _, _, _, _, _)
mark_visible(t, child_ids, k, parent_scroll_y, parent_rect, current_y) ==
    IF k > Len(child_ids) \/ t.panic THEN t
    ELSE IF k - 1 < parent_scroll_y \/ child_ids[k] >= Len(t.rects)
    THEN mark_visible(t, child_ids, k + 1, parent_scroll_y, parent_rect, current_y)
    ELSE LET bottom == parent_rect.y + parent_rect.height
             next_y == current_y + t.rects[child_ids[k] + 1].height
             t1 == Panics(t, Overflowed(bottom))
         IN IF t1.panic \/ current_y >= u16(bottom) THEN t1
            ELSE Bind(Panics(mark_dirty(t1, child_ids[k]), Overflowed(next_y)),
                      LAMBDA t2 :
                 mark_visible(t2, child_ids, k + 1, parent_scroll_y, parent_rect,
                              u16(next_y)))

\* render_node: the child of `id` that is the focus or an ancestor of it,
\* NoParent when the focus is not below `id`
RECURSIVE focused_child_of_container(_, _, _)
focused_child_of_container(t, id, focused_component) ==
    LET parent_id == parent_of(t, focused_component)
    IN IF parent_id = NoParent THEN NoParent
       ELSE IF parent_id = id THEN focused_component
       ELSE focused_child_of_container(t, id, parent_id)

\* render_node: move the focus to the deepest last descendant of closest_child,
\* which takes over the cursor of the node the focus leaves
refocus(t, closest_child) ==
    Bind(find_last_focusable_descendant(t, closest_child), LAMBDA deepest :
        LET t1 == IF t.focus < Len(t.cursor_col) /\ t.focus < Len(t.cursor_row)
                  THEN [t EXCEPT
                          !.cursor_col = Put(@, deepest, t.cursor_col[t.focus + 1]),
                          !.cursor_row = Put(@, deepest, t.cursor_row[t.focus + 1])]
                  ELSE t
        IN Bind([t1 EXCEPT !.focus = deepest], LAMBDA t2 : update_focus_path(t2)))

\* render_node: "update focus if focused child has scrolled out of view"
refocus_if_scrolled_out(t, id, child_ids, parent_scroll_y, parent_rect) ==
    LET visible_end == parent_scroll_y + parent_rect.height
        focused_child == focused_child_of_container(t, id, t.focus)
        hits == {k \in 1..Len(child_ids) : child_ids[k] = focused_child}
        child_idx == (CHOOSE k \in hits : \A j \in hits : k <= j) - 1
        \* visible_end - 1 in usize: wraps to the largest usize without checks
        last_visible_idx == IF visible_end = 0 THEN Len(child_ids) - 1
                            ELSE Min(visible_end - 1, Len(child_ids) - 1)
    IN IF focused_child = NoParent \/ hits = {} THEN t
       ELSE IF child_idx < parent_scroll_y
       THEN IF parent_scroll_y < Len(child_ids)
            THEN refocus(t, child_ids[parent_scroll_y + 1]) ELSE t
       ELSE IF child_idx >= visible_end
       THEN IF overflow_checks /\ visible_end = 0 THEN [t EXCEPT !.panic = TRUE]
            ELSE refocus(t, child_ids[last_visible_idx + 1])
       ELSE t

\* render_node: "limit scrolling"
limit_scrolling(t, id, child_ids, parent_scroll_y) ==
    IF fmt_of(t, id).overflow_y = "Scroll" /\ child_ids # <<>>
       /\ parent_scroll_y >= Len(child_ids)
    THEN [t EXCEPT !.scroll_y = Put(@, id, saturating_sub(Len(child_ids), 1))]
    ELSE t

\* a faulty variant of restore_position: the child keeps its screen position
keep_screen_position(t1, child_id, original, vertical) == [t1 EXCEPT !.io_error = FALSE]

\* render_node: `let _ = self.render_node(child)` drops the child's Err, and
\* the child gets the position layout gave it back
restore_position(t1, child_id, original, vertical) ==
    [t1 EXCEPT !.io_error = FALSE,
               !.rects = Put(@, child_id,
                   IF vertical THEN [t1.rects[child_id + 1] EXCEPT !.y = original.y]
                   ELSE [t1.rects[child_id + 1] EXCEPT !.x = original.x,
                                                       !.y = original.y])]

\* render_node: lowest_rendered_y after the loop over the children from child
\* k on, -1 for None
RECURSIVE lowest_rendered_y(_, _, _, _, _, _, _)
lowest_rendered_y(t, id, child_ids, k, parent_rect, current_screen_y, lowest) ==
    IF k > Len(child_ids) THEN lowest
    ELSE
     LET vertical == fmt_of(t, id).layout_mode = "VerticalSplit"
         child_id == child_ids[k]
         original == t.rects[child_id + 1]
         bottom == u16(parent_rect.y + parent_rect.height)
         child_bottom == u16(current_screen_y + original.height)
         horizontal_bottom == u16(u16(parent_rect.y + original.y) + original.height)
     IN IF (vertical /\ k - 1 < Get(t.scroll_y, id, 0)) \/ child_id >= Len(t.rects)
        THEN lowest_rendered_y(t, id, child_ids, k + 1, parent_rect, current_screen_y,
                               lowest)
        ELSE IF vertical
        THEN IF current_screen_y >= bottom \/ child_bottom > bottom THEN lowest
             ELSE lowest_rendered_y(t, id, child_ids, k + 1, parent_rect, child_bottom,
                                    Max(lowest, child_bottom))
        ELSE lowest_rendered_y(t, id, child_ids, k + 1, parent_rect, current_screen_y,
                               Max(lowest, horizontal_bottom))

\* render_node: "fill remaining space below children", which fails when the
\* terminal fails there
fill_below(t, id, child_ids, parent_rect) ==
    IF /\ t.io_fails = <<"fill", id>>
       /\ parent_rect.width > 0
       /\ \E lowest_y \in {lowest_rendered_y(t, id, child_ids, 1, parent_rect,
                                               parent_rect.y, -1)} :
              lowest_y # -1 /\ lowest_y < u16(parent_rect.y + parent_rect.height)
    THEN [t EXCEPT !.io_failed = TRUE, !.io_error = TRUE]
    ELSE t

RECURSIVE render_node(_, _)
RECURSIVE render_children(_, _, _, _, _, _, _)

\* render_node: the loop over the children from child k on; every child is
\* rendered at its screen position and gets its own rect back afterwards
render_children(t, id, child_ids, k, final_scroll_y, parent_rect, current_screen_y) ==
    IF k > Len(child_ids) \/ t.panic THEN t
    ELSE
     LET vertical == fmt_of(t, id).layout_mode = "VerticalSplit"
         child_id == child_ids[k]
         original == t.rects[child_id + 1]
         bottom == parent_rect.y + parent_rect.height
         child_bottom == current_screen_y + original.height
         screen == IF vertical THEN [original EXCEPT !.y = current_screen_y]
                   ELSE [original EXCEPT !.x = u16(parent_rect.x + original.x),
                                         !.y = u16(parent_rect.y + original.y)]
         t2 == Bind(render_node([t EXCEPT !.rects = Put(@, child_id, screen)], child_id),
                    LAMBDA t1 : restore_position(t1, child_id, original, vertical))
     IN IF (vertical /\ k - 1 < final_scroll_y) \/ child_id >= Len(t.rects)
        THEN render_children(t, id, child_ids, k + 1, final_scroll_y, parent_rect,
                             current_screen_y)
        ELSE IF vertical
        THEN IF overflow_checks /\ (Overflowed(bottom) \/ Overflowed(child_bottom))
             THEN [t EXCEPT !.panic = TRUE]
             ELSE IF current_screen_y >= u16(bottom) \/ u16(child_bottom) > u16(bottom)
             THEN t
             ELSE Bind(t2, LAMBDA t3 :
                  render_children(t3, id, child_ids, k + 1, final_scroll_y, parent_rect,
                                  u16(child_bottom)))
        ELSE IF overflow_checks /\ (\/ Overflowed(parent_rect.y + original.y)
                                    \/ Overflowed(parent_rect.x + original.x)
                                    \/ Overflowed(u16(parent_rect.y + original.y)
                                                  + original.height))
        THEN [t EXCEPT !.panic = TRUE]
        ELSE Bind(t2, LAMBDA t3 :
             render_children(t3, id, child_ids, k + 1, final_scroll_y, parent_rect,
                             current_screen_y))

\* ComponentTree::render_node
render_node(t, id) ==
    LET final_scroll_y == Get(t.scroll_y, id, 0)
        child_ids == children_of(t, id)
        parent_rect == Get(t.rects, id, RectEmpty)
        vertical == fmt_of(t, id).layout_mode = "VerticalSplit"
    IN IF t.panic THEN t
       ELSE
        Bind(render_self(t, id), LAMBDA t1 :
        IF t1.panic \/ t1.io_error \/ id >= Len(t1.children) THEN t1
        ELSE
        Bind(IF vertical
             THEN mark_visible(t1, child_ids, 1, final_scroll_y, parent_rect,
                               parent_rect.y)
             ELSE [t1 EXCEPT !.dirty = @ \cup {child_ids[k] : k \in 1..Len(child_ids)}],
             LAMBDA t2 :
        Bind(IF vertical /\ ~t2.panic
             THEN refocus_if_scrolled_out(t2, id, child_ids, final_scroll_y, parent_rect)
             ELSE t2, LAMBDA t3 :
        IF t3.panic THEN t3
        ELSE Bind(limit_scrolling(t3, id, child_ids, final_scroll_y), LAMBDA t4 :
             Bind(render_children(t4, id, child_ids, 1, final_scroll_y, parent_rect,
                                  parent_rect.y), LAMBDA t5 :
                  IF t5.panic THEN t5 ELSE fill_below(t5, id, child_ids, parent_rect))))))

\* ComponentTree::render; a panic leaves no tree to observe, the model keeps
\* the one before the call.  An Err of the terminal at Hide, in the root's
\* render_node or at Show leaves through `?`, before clear_dirty
render(t) ==
    IF t.io_fails = <<"hide">> THEN [t EXCEPT !.io_failed = TRUE, !.io_error = TRUE]
    ELSE Bind(render_node(t, root), LAMBDA r :
         IF r.panic THEN [t EXCEPT !.panic = TRUE]
         ELSE IF r.io_error THEN r
         ELSE IF r.cursor_pos # <<>> /\ t.io_fails = <<"show">>
         THEN [r EXCEPT !.io_failed = TRUE, !.io_error = TRUE]
         ELSE clear_dirty(r))

(***************************************************************************)
(* The application driving one tree: what it adds, the events it feeds     *)
(* (event.rs) and the terminal sizes it lays out.                          *)
(***************************************************************************)
\* the components add_child is called with, under their default formatting
ChildNames == {"Text", "EditableText", "Failing"}

\* the explicit formattings add_child_with_formatting is called with
ExplicitFormattings == {[TextGutterFormatting EXCEPT !.request_focus = TRUE]}

Points == {<<1, 1>>}

Events ==
    {Key(code) : code \in Motions}
        \cup {Event("Resize", "", 0, 0)}
        \cup {Event(kind, "", pt[1], pt[2]) :
                kind \in {"MouseDown", "ScrollUp", "ScrollDown"}, pt \in Points}

TerminalSizes == {<<4, 2>>}

\* ComponentTree::update resolves mouse events itself, the rest is dispatched
is_pointer(event) == event.kind \in {"MouseDown", "ScrollUp", "ScrollDown"}

Call(op, arg, ok, id) == [op |-> op, arg |-> arg, ok |-> ok, id |-> id]

Init ==
    /\ SetTreeInit(new(FrameNode))
    /\ overflow_checks \in BOOLEAN
    /\ last_call = Call("new", <<>>, TRUE, root)

\* tree.add_child(parent_id, component), for any parent id the caller may hold
AddChild(parent_id, name) ==
    /\ ~panicked
    /\ \E r \in {add_child(Tree, parent_id, ComponentOf(name))} :
          /\ SetTree(r.tree)
          /\ last_call' = Call("add_child", parent_id, r.ok, r.id)
    /\ UNCHANGED overflow_checks

\* tree.add_child_with_formatting(parent_id, component, formatting)
AddChildWithFormatting(parent_id, name, fmt) ==
    /\ ~panicked
    /\ \E r \in {add_child_with_formatting(Tree, parent_id, ComponentOf(name), fmt)} :
          /\ SetTree(r.tree)
          /\ last_call' = Call("add_child", parent_id, r.ok, r.id)
    /\ UNCHANGED overflow_checks

\* tree.update(event)
Update(event) ==
    /\ ~panicked
    /\ \E r \in {update(Tree, event)} :
          /\ NodeCount(r.tree) <= MaxExpanded
          /\ Len(r.tree.scroll_y) <= NodeCount(r.tree) + MaxScrollGrowth
          /\ SetTree(r.tree)
          /\ last_call' = Call("update", is_pointer(event), r.ok, NoParent)
    /\ UNCHANGED overflow_checks

\* tree.layout(width, height)
Layout(size) ==
    /\ ~panicked
    /\ \E t \in {layout(Tree, size[1], size[2])} : SetTree(t)
    /\ last_call' = Call("layout", size, TRUE, NoParent)
    /\ UNCHANGED overflow_checks

\* tree.render(stdout); the call records whether the call before it was a
\* render as well
Render ==
    /\ ~panicked
    /\ \E t \in {render(Tree)} : SetTree(t)
    /\ last_call' = Call("render", last_call.op = "render", TRUE, NoParent)
    /\ UNCHANGED overflow_checks

\* tree.render(stdout) on a terminal whose write at `point` fails; the call
\* records the point and whether render returned Ok
RenderFailing(point) ==
    /\ ~panicked
    /\ \E t \in {render([Tree EXCEPT !.io_fails = point])} :
          /\ t.io_failed
          /\ SetTree(t)
          /\ last_call' = Call("render_failing", point, ~t.io_error, NoParent)
    /\ UNCHANGED overflow_checks

(***************************************************************************)
(* Spec: a tree under construction and under input, never drawn.           *)
(***************************************************************************)
Next ==
    \/ \E parent_id \in 0..MaxNodes, name \in ChildNames :
           NodeCount(Tree) < MaxNodes /\ AddChild(parent_id, name)
    \/ \E parent_id \in 0..MaxNodes, fmt \in ExplicitFormattings :
           /\ NodeCount(Tree) < MaxNodes
           /\ AddChildWithFormatting(parent_id, "TextGutter", fmt)
    \/ \E event \in Events : Update(event)

Spec == Init /\ [][Next]_vars

(***************************************************************************)
(* RenderSpec: a small tree of one-line texts that is also laid out and    *)
(* drawn, in any order.                                                    *)
(***************************************************************************)
RenderEvents ==
    {Key("j"), Key("k"), Event("MouseDown", "", 1, 1), Event("ScrollDown", "", 1, 1)}

RenderNext ==
    \/ \E parent_id \in 0..MaxRenderNodes :
           NodeCount(Tree) < MaxRenderNodes /\ AddChild(parent_id, "Line")
    \/ \E event \in RenderEvents : Update(event)
    \/ \E size \in TerminalSizes : Layout(size)
    \/ Render

RenderSpec == Init /\ [][RenderNext]_vars

(***************************************************************************)
(* LayoutSpec: trees of boxes with explicit formatting, laid out at        *)
(* several terminal sizes.                                                 *)
(***************************************************************************)
RowFormatting == Formatting(Fill, Fill, "Hide", "Hide", FALSE, "HorizontalSplit", TRUE)
CellFormatting(k) == Formatting(Cell(k), Fill, "Hide", "Hide", FALSE, "VerticalSplit", TRUE)
FillFormatting == Formatting(Fill, Fill, "Hide", "Hide", FALSE, "VerticalSplit", TRUE)

\* what LayoutSpec adds: a row, a cell three wide, a filler and a status line
LayoutItems ==
    {<<"Frame", RowFormatting>>, <<"Frame", CellFormatting(3)>>,
     <<"Frame", FillFormatting>>, <<"Status", StatusFormatting>>}

LayoutSizes == {<<4, 2>>, <<80, 24>>, <<656, 24>>, <<0, 3>>}

LayoutNext ==
    \/ \E parent_id \in 0..1, item \in LayoutItems :
           /\ NodeCount(Tree) < MaxLayoutNodes
           /\ AddChildWithFormatting(parent_id, item[1], item[2])
    \/ \E size \in LayoutSizes : Layout(size)

LayoutSpec == Init /\ [][LayoutNext]_vars

(***************************************************************************)
(* CalcSpec: calculate_size on its own, as layout calls it with the        *)
(* measurement of a node and the extent available to it.                   *)
(***************************************************************************)
Measurements ==
    {Percent(p) : p \in 0..100} \cup {Cell(0), Cell(3), Cell(700), Content, Fill}

Extents == {0, 1, 7, 80, 655, 656, 1000, 65535}

\* one call; a build with overflow checks panics where the product overflows
CalculateSize(measurement, available) ==
    /\ ~panicked
    /\ panicked' = (overflow_checks /\ calculate_size_overflows(measurement, available))
    /\ last_call' = Call("calculate_size", <<measurement, available>>, ~panicked',
                         calculate_size(measurement, available))
    /\ UNCHANGED <<treeVars, overflow_checks, expanded, rendered, composited, placed, updated, resolved, drawn_at>>

CalcNext == \E measurement \in Measurements, available \in Extents :
               CalculateSize(measurement, available)

CalcSpec == Init /\ [][CalcNext]_vars

(***************************************************************************)
(* MeasureSpec: a string written into a fresh buffer and measured.         *)
(***************************************************************************)
\* a measured buffer holds at most this many commands
MaxCommands == 4

\* the command sequences of at most n commands: characters, row breaks and
\* style markers
RECURSIVE BuffersUpTo(_)
BuffersUpTo(n) ==
    IF n = 0 THEN {<<>>}
    ELSE LET shorter == BuffersUpTo(n - 1)
         IN shorter \cup {Append(b, cmd) : b \in shorter, cmd \in {"P", "N", "B"}}

\* TerminalBuffer::new(width, _), write(text) with text of len characters,
\* measure_content()
MeasureContent(len, width) ==
    /\ ~panicked
    /\ last_call' = Call("measure_content", <<len, width>>, TRUE,
                         measure_content(write(<<>>, len), width))
    /\ UNCHANGED <<treeVars, overflow_checks, panicked, expanded, rendered,
                   composited, placed, updated, resolved, drawn_at>>

\* TerminalBuffer::new(width, _), the commands of `buffer` recorded by a
\* component's render, measure_content()
MeasureCommands(buffer, width) ==
    /\ ~panicked
    /\ last_call' = Call("measure_commands", <<buffer, width>>, TRUE,
                         measure_content(buffer, width))
    /\ UNCHANGED <<treeVars, overflow_checks, panicked, expanded, rendered,
                   composited, placed, updated, resolved, drawn_at>>

MeasureNext ==
    \/ \E len \in 0..MaxTextLen, width \in 0..MaxBufferWidth :
           MeasureContent(len, width)
    \/ \E buffer \in BuffersUpTo(MaxCommands), width \in 0..MaxRectSide :
           MeasureCommands(buffer, width)

MeasureSpec == Init /\ [][MeasureNext]_vars

(***************************************************************************)
(* CursorSpec: set_cursor issued through the command object of a node.     *)
(***************************************************************************)
CursorNames == {"Text", "Box", "TextContent", "Frame"}

CursorCols == {0, 4, 9, 10, U16Max}

CursorRows == {0, 2, 3, U16Max}

\* ComponentCommands::new(tree, id).set_cursor(col, row)
SetCursor(id, col, row) ==
    /\ ~panicked
    /\ id \in Ids(Tree)
    /\ \E c \in {set_cursor(Commands(Tree, id), col, row)} : SetTree(c.t)
    /\ last_call' = Call("set_cursor", <<id, col, row>>, TRUE, NoParent)
    /\ UNCHANGED overflow_checks

CursorNext ==
    \/ \E parent_id \in 0..MaxCursorNodes, name \in CursorNames :
           NodeCount(Tree) < MaxCursorNodes /\ AddChild(parent_id, name)
    \/ \E id \in 0..(MaxCursorNodes - 1), col \in CursorCols, row \in CursorRows :
           SetCursor(id, col, row)

CursorSpec == Init /\ [][CursorNext]_vars

(***************************************************************************)
(* ScrollSpec: a scrollable container of status lines, scrolled by the     *)
(* wheel and by set_scroll_y, laid out and drawn.                          *)
(***************************************************************************)
ScrollFormatting == Formatting(Fill, Fill, "Hide", "Scroll", FALSE, "VerticalSplit", TRUE)

ScrollEvents == {Event("ScrollDown", "", 1, 1), Event("ScrollUp", "", 1, 1)}

ScrollOffsets == {2}

\* ComponentCommands::new(tree, id).set_scroll_y(offset)
SetScrollY(id, offset) ==
    /\ ~panicked
    /\ id \in Ids(Tree)
    /\ \E c \in {set_scroll_y(Commands(Tree, id), offset)} : SetTree(c.t)
    /\ last_call' = Call("set_scroll_y", <<id, offset>>, TRUE, NoParent)
    /\ UNCHANGED overflow_checks

ScrollNext ==
    \/ /\ NodeCount(Tree) < MaxScrollNodes
       /\ AddChildWithFormatting(root, "Frame", ScrollFormatting)
    \/ NodeCount(Tree) < MaxScrollNodes /\ AddChild(1, "Status")
    \/ \E size \in TerminalSizes : Layout(size)
    \/ \E event \in ScrollEvents : Update(event)
    \/ \E id \in 0..(MaxScrollNodes - 1), offset \in ScrollOffsets : SetScrollY(id, offset)
    \/ Render

ScrollSpec == Init /\ [][ScrollNext]_vars

(***************************************************************************)
(* NavSpec: move_cursor issued through the command object of a node, on    *)
(* trees of one-row leaves, text and frames.                               *)
(***************************************************************************)
NavNames == {"TextContent", "Line", "Frame"}

\* a one-row leaf that asks for the focus when it is added
FocusRequestingContent == [TextContentFormatting EXCEPT !.request_focus = TRUE]

NavDeltas == {<<0, 1>>, <<0, -1>>}

\* ComponentCommands::new(tree, id).move_cursor(col_delta, row_delta)
MoveCursor(id, col_delta, row_delta) ==
    /\ ~panicked
    /\ id \in Ids(Tree)
    /\ \E c \in {move_cursor(Commands(Tree, id), col_delta, row_delta)} : SetTree(c.t)
    /\ last_call' = Call("move_cursor", <<id, col_delta, row_delta>>, TRUE, NoParent)
    /\ UNCHANGED overflow_checks

NavNext ==
    \/ \E parent_id \in 0..1, name \in NavNames :
           NodeCount(Tree) < MaxNavNodes /\ AddChild(parent_id, name)
    \/ \E parent_id \in 0..1 :
           /\ NodeCount(Tree) < MaxNavNodes
           /\ AddChildWithFormatting(parent_id, "TextContent", FocusRequestingContent)
    \/ Update(Key("j"))
    \/ \E id \in 0..(MaxNavNodes - 1), delta \in NavDeltas :
           MoveCursor(id, delta[1], delta[2])

NavSpec == Init /\ [][NavNext]_vars

(***************************************************************************)
(* CompositeSpec: what render puts to the terminal for one dirty node,     *)
(* given what the node's render left in its buffer.                        *)
(***************************************************************************)
Policies == {"Wrap", "Hide"}

\* render_node visits a dirty node of the given rect size and overflow_x whose
\* render leaves `buffer`
Composite(buffer, width, height, overflow_x) ==
    /\ ~panicked
    /\ last_call' = Call("composite", <<buffer, width, height, overflow_x>>, TRUE,
                         composite(buffer, width, height, overflow_x))
    /\ UNCHANGED <<treeVars, overflow_checks, panicked, expanded, rendered,
                   composited, placed, updated, resolved, drawn_at>>

CompositeNext ==
    \E buffer \in BuffersUpTo(MaxBufferLen), width \in 1..MaxRectSide,
       height \in 0..MaxRectSide, overflow_x \in Policies :
        Composite(buffer, width, height, overflow_x)

CompositeSpec == Init /\ [][CompositeNext]_vars

(***************************************************************************)
(* Properties of the arena and of expansion, stated on Spec.               *)
(***************************************************************************)
\* how often id occurs in the children list of node p
Occurrences(p, id) == Cardinality({k \in 1..Len(children[p + 1]) : children[p + 1][k] = id})

\* C1 (arena integrity): node 0 is the only node without a parent, every other
\* node's parent is an existing node, and every non-root id occurs exactly once
\* in its parent's children list and in no other children list.
C1_ArenaIntegrity ==
    /\ Len(parent) = Len(components)
    /\ Len(children) = Len(components)
    /\ parent[1] = NoParent
    /\ \A id \in 1..(Len(components) - 1) :
          /\ parent[id + 1] \in 0..(Len(components) - 1)
          /\ Occurrences(parent[id + 1], id) = 1
          /\ \A p \in 0..(Len(components) - 1) :
                p # parent[id + 1] => Occurrences(p, id) = 0

\* an arena grown by add_child and by expansion, in which some node hangs two
\* levels below the root
C1_Witness ==
    /\ Len(components) > MaxNodes
    /\ \E id \in 1..(Len(components) - 1) :
           /\ parent[id + 1] # root
           /\ parent[parent[id + 1] + 1] # root

\* the parent chain of id in the parent table par, root first
RECURSIVE ParentChain(_, _)
ParentChain(par, id) ==
    IF par[id + 1] = NoParent THEN <<id>> ELSE Append(ParentChain(par, par[id + 1]), id)

\* C2 (focus path consistency): every step that changes the focus id leaves
\* focus_path equal to the parent chain from the root down to the new focus.
C2_FocusPathConsistent ==
    [][focus' # focus => focus_path' = ParentChain(parent', focus')]_vars

\* C3: the focus id always denotes a node whose formatting is focusable, or the
\* root when no node of the tree is focusable.
C3_FocusIsFocusable ==
    \/ formatting[focus + 1].focusable
    \/ /\ focus = root
       /\ \A id \in 0..(Len(formatting) - 1) : ~formatting[id + 1].focusable

\* C4: add_child returns the not-found error exactly when the parent id is not
\* the id of an existing node, and a failing call leaves the whole tree as it was.
C4_NotFoundExactly ==
    [][last_call'.op = "add_child" =>
          /\ last_call'.ok <=> last_call'.arg \in 0..(Len(components) - 1)
          /\ ~last_call'.ok => treeVars' = treeVars]_vars

\* add_child has failed on a tree that already has children
C4_Witness ==
    /\ last_call.op = "add_child"
    /\ ~last_call.ok
    /\ Len(components) > 2

\* C5: a successful add_child returns the number of nodes there were before the
\* call, so ids grow by one from root 0 and are never reused; the component,
\* parent and formatting of an existing id are not changed by add_child, also
\* not by the add_child calls an expansion makes.
C5_IdsStable ==
    [][/\ Len(components') >= Len(components)
       /\ \A id \in 0..(Len(components) - 1) :
             /\ parent'[id + 1] = parent[id + 1]
             /\ formatting'[id + 1] = formatting[id + 1]
             /\ components'[id + 1].kind = components[id + 1].kind
       /\ last_call'.op = "add_child" =>
             /\ \A id \in 0..(Len(components) - 1) :
                   components'[id + 1] = components[id + 1]
             /\ last_call'.ok =>
                   /\ last_call'.id = Len(components)
                   /\ Len(components') = Len(components) + 1]_vars

\* add_child has succeeded on a tree of three nodes and returned 3
C5_Witness ==
    /\ last_call.op = "add_child"
    /\ last_call.ok
    /\ last_call.id = 3
    /\ Len(components) = 4

\* C7 (one-time expansion): after update with an event that is not a pointer
\* event returns successfully the pending queue is empty and children() has
\* been invoked exactly once on every node that is not a Frame; and no node is
\* ever expanded twice.
C7_ExpandedOnce ==
    /\ \A id \in 0..(Len(components) - 1) : expanded[id + 1] <= 1
    /\ (last_call.op = "update" /\ ~last_call.arg /\ last_call.ok) =>
          /\ pending_initialization = <<>>
          /\ \A id \in 0..(Len(components) - 1) :
                components[id + 1].kind # "Frame" => expanded[id + 1] = 1


(***************************************************************************)
(* Properties of drawing, stated on RenderSpec.                            *)
(***************************************************************************)
\* every node has a box with room in it: a layout ran after the last node
\* was added
LaidOut ==
    \A id \in 0..(Len(rects) - 1) :
        rects[id + 1].width > 0 /\ rects[id + 1].height > 0

\* C6: a render that directly follows a render of the laid-out tree renders
\* no node again and composites no node's content to the terminal.
C6_SecondRenderIsSilent ==
    (last_call.op = "render" /\ last_call.arg = TRUE /\ LaidOut)
        => (rendered = {} /\ composited = {})

(***************************************************************************)
(* Properties of layout, stated on LayoutSpec.                             *)
(***************************************************************************)
\* the children of `id` are cells and exactly one filler
OneFillAmongCells(id) ==
    LET kids == children[id + 1] IN
    /\ Cardinality({k \in 1..Len(kids) :
                       formatting[kids[k] + 1].preferred_width = Fill}) = 1
    /\ \A k \in 1..Len(kids) :
           formatting[kids[k] + 1].preferred_width.t \in {"Fill", "Cell"}

CellTotal(id) ==
    LET kids == children[id + 1] IN
    SumSeq([k \in 1..Len(kids) |->
               IF formatting[kids[k] + 1].preferred_width.t = "Cell"
               THEN formatting[kids[k] + 1].preferred_width.n ELSE 0])

WidthTotal(id) ==
    LET kids == children[id + 1] IN
    SumSeq([k \in 1..Len(kids) |-> rects[kids[k] + 1].width])

\* C8: after a layout, in every horizontal split that was placed with width
\* W and some height and whose children are cells k_i and one filler, the
\* filler is max(0, W - sum k_i) wide and the children's widths add up to at
\* most W.
C8_FillTakesTheRest ==
    (last_call.op = "layout" /\ ~panicked) =>
        \A id \in placed :
            (/\ formatting[id + 1].layout_mode = "HorizontalSplit"
             /\ rects[id + 1].height > 0
             /\ OneFillAmongCells(id))
            => /\ \A k \in 1..Len(children[id + 1]) :
                      formatting[children[id + 1][k] + 1].preferred_width = Fill
                      => rects[children[id + 1][k] + 1].width
                            = Max(0, rects[id + 1].width - CellTotal(id))
               /\ WidthTotal(id) <= rects[id + 1].width

\* the root has exactly a body that fills both ways and a status line one
\* row high
BodyAndStatus ==
    /\ formatting[root + 1].layout_mode = "VerticalSplit"
    /\ Len(children[root + 1]) = 2
    /\ formatting[children[root + 1][1] + 1].preferred_width = Fill
    /\ formatting[children[root + 1][1] + 1].preferred_height = Fill
    /\ formatting[children[root + 1][2] + 1].preferred_width = Fill
    /\ formatting[children[root + 1][2] + 1].preferred_height = Cell(1)

\* C10: layout(W, H) with H >= 1 on a root holding a body and a status line
\* gives the body (0, 0, W, H - 1) and the status line (0, H - 1, W, 1).
C10_BodyAndStatusBoxes ==
    (last_call.op = "layout" /\ last_call.arg[2] >= 1 /\ BodyAndStatus) =>
        /\ ~panicked
        /\ rects[children[root + 1][1] + 1]
              = Rect(0, 0, last_call.arg[1], last_call.arg[2] - 1)
        /\ rects[children[root + 1][2] + 1]
              = Rect(0, last_call.arg[2] - 1, last_call.arg[1], 1)

(***************************************************************************)
(* Properties of calculate_size, stated on CalcSpec.                       *)
(***************************************************************************)
\* C9: calculate_size of Percent(p), 0 <= p <= 100, against an available
\* extent A returns floor(A * p / 100).
C9_PercentIsFloor ==
    (last_call.op = "calculate_size" /\ last_call.arg[1].t = "Percent") =>
        /\ last_call.ok
        /\ last_call.id = (last_call.arg[2] * last_call.arg[1].n) \div 100

(***************************************************************************)
(* Properties of measure_content, stated on MeasureSpec.                   *)
(***************************************************************************)
\* C11: a string of len >= 1 characters without a row break, written into a
\* buffer of width w >= 1, measures (len, 1) when w >= len and
\* (w, ceil(len / w)) when w < len.
C11_ContentMeasurement ==
    (/\ last_call.op = "measure_content"
     /\ last_call.arg[1] >= 1
     /\ last_call.arg[2] >= 1)
    => LET len == last_call.arg[1]
           w == last_call.arg[2]
       IN  last_call.id = IF w >= len THEN <<len, 1>>
                          ELSE <<w, (len + w - 1) \div w>>

\* seven characters were measured at width three: three rows, the last one short
C11_Witness ==
    /\ last_call.op = "measure_content"
    /\ last_call.arg = <<7, 3>>
    /\ last_call.id = <<3, 3>>

(***************************************************************************)
(* Properties of set_cursor, stated on CursorSpec.                         *)
(***************************************************************************)
IsLeaf(id) == children[id + 1] = <<>>

\* C12: set_cursor on a leaf whose logical bounds are w x h, w and h at least
\* 1, stores a column in 0..w-1 and a row in 0..h-1, whatever position was
\* asked for; on the leaf of bounds 10 x 3 the cursor is inside 0..9 x 0..2.
C12_CursorClamp ==
    (last_call.op = "set_cursor" /\ IsLeaf(last_call.arg[1])) =>
        LET id == last_call.arg[1]
            bounds == measure_logical_bounds(Tree, id)
        IN /\ (bounds[1] >= 1 /\ bounds[2] >= 1) =>
                 /\ cursor_col[id + 1] \in 0..(bounds[1] - 1)
                 /\ cursor_row[id + 1] \in 0..(bounds[2] - 1)
           /\ components[id + 1] = BoxNode =>
                 /\ bounds = <<10, 3>>
                 /\ cursor_col[id + 1] \in 0..9
                 /\ cursor_row[id + 1] \in 0..2

\* the far corner was asked for on the leaf of bounds 10 x 3
C12_Witness ==
    /\ last_call.op = "set_cursor"
    /\ last_call.arg[2] = U16Max /\ last_call.arg[3] = U16Max
    /\ components[last_call.arg[1] + 1] = BoxNode
    /\ cursor_col[last_call.arg[1] + 1] = 9
    /\ cursor_row[last_call.arg[1] + 1] = 2

(***************************************************************************)
(* Properties of scrolling, stated on ScrollSpec.                          *)
(***************************************************************************)
\* the largest scroll offset of a node: the index of its last child, 0 for a
\* node without children
MaxScrollOf(id) == Max(Len(children[id + 1]) - 1, 0)

\* C13: after any sequence of wheel events, set_scroll_y commands and renders
\* the vertical scroll offset of every node is at most the index of its last
\* child, and 0 for a node without children.
C13_ScrollClamp ==
    \A id \in 0..(Len(components) - 1) :
        id + 1 <= Len(scroll_y) => scroll_y[id + 1] \in 0..MaxScrollOf(id)

\* the container the wheel events of ScrollSpec reach, NoParent when none
WheelTarget == find_scrollable_container_at(Tree, 1, 1)

\* C19: a wheel event that changes a container's scroll offset leaves the
\* container and every direct child in the dirty set; a wheel event that
\* changes no offset leaves the dirty set as it was.  (Every update of
\* ScrollSpec is a wheel event at the one point.)
C19_ScrollInvalidates ==
    [][last_call'.op = "update" =>
          IF WheelTarget # NoParent
             /\ scroll_y'[WheelTarget + 1] # scroll_y[WheelTarget + 1]
          THEN /\ WheelTarget \in dirty'
               /\ \A k \in 1..Len(children[WheelTarget + 1]) :
                      children[WheelTarget + 1][k] \in dirty'
          ELSE dirty' = dirty]_vars

\* a wheel event has just moved a container whose children were clean
C19_Witness ==
    /\ last_call.op = "update"
    /\ \E id \in 1..(Len(components) - 1) :
          /\ Len(children[id + 1]) = 2
          /\ scroll_y[id + 1] = 1
          /\ {id} \cup {children[id + 1][k] : k \in 1..2} = dirty

(***************************************************************************)
(* Properties of focus navigation, stated on NavSpec.                      *)
(***************************************************************************)
\* the position of id in the children list of its parent, 0 when it has none
IndexInParent(id) ==
    IF parent[id + 1] = NoParent THEN 0
    ELSE CHOOSE k \in 1..Len(children[parent[id + 1] + 1]) :
             children[parent[id + 1] + 1][k] = id

\* the sibling below id, NoParent when id is the last child or the root
SiblingBelow(id) ==
    IF parent[id + 1] = NoParent
       \/ IndexInParent(id) = Len(children[parent[id + 1] + 1])
    THEN NoParent
    ELSE children[parent[id + 1] + 1][IndexInParent(id) + 1]

\* the focus is a leaf that is a child of a VerticalSplit container, its cursor
\* is on its last logical row, and the sibling below it is a focusable leaf
AtLastRowAboveSibling ==
    /\ IsLeaf(focus)
    /\ parent[focus + 1] # NoParent
    /\ formatting[parent[focus + 1] + 1].layout_mode = "VerticalSplit"
    /\ cursor_row[focus + 1] = Max(measure_logical_bounds(Tree, focus)[2] - 1, 0)
    /\ SiblingBelow(focus) # NoParent
    /\ IsLeaf(SiblingBelow(focus))
    /\ formatting[SiblingBelow(focus) + 1].focusable

\* C14: when the focused leaf is the child at index i of a VerticalSplit
\* container, its cursor is on its last logical row and the child at index
\* i+1 is a focusable leaf, move_cursor(0, +1) issued by the focused leaf
\* makes that child the focus and puts its cursor on row 0.
C14_DownwardTransfer ==
    [][(/\ last_call'.op = "move_cursor"
        /\ last_call'.arg = <<focus, 0, 1>>
        /\ AtLastRowAboveSibling)
       => /\ focus' = SiblingBelow(focus)
          /\ cursor_row'[focus' + 1] = 0]_vars

(***************************************************************************)
(* Properties of compositing, stated on CompositeSpec.                     *)
(***************************************************************************)
\* C15: when render visits a dirty node with a rect that is not empty, under
\* either policy every cell of the rect is written with new content or a
\* blank, also when the node's content is short, empty or only style markers.
C15_EveryCellWritten ==
    last_call.op = "composite" =>
        \A x \in 0..(last_call.arg[2] - 1), y \in 0..(last_call.arg[3] - 1) :
            \E cell \in last_call.id : cell[1] = x /\ cell[2] = y

\* C16: after layout(W, H) every node's rect is the one the same call gives
\* a tree of the same structure and formatting whose rects were never set by
\* an earlier layout
NeverLaidOut ==
    [Tree EXCEPT !.rects = [i \in 1..Len(rects) |-> RectEmpty]]

C16_LayoutSelfHealing ==
    (last_call.op = "layout" /\ ~panicked) =>
        rects = layout(NeverLaidOut, last_call.arg[1], last_call.arg[2]).rects

\* ---- command scoping ----

\* the styles a component may ask for
CursorStyles == {"Line"}

\* one update call of node id whose body issues move_cursor and then
\* set_cursor_style through the command object it was handed
MoveCursorThenSetCursorStyle(id, col_delta, row_delta, style) ==
    /\ ~panicked
    /\ id \in Ids(Tree)
    /\ \E c \in {set_cursor_style(move_cursor(Commands(Tree, id), col_delta, row_delta), style)} :
           SetTree(c.t)
    /\ last_call' = Call("move_cursor;set_cursor_style", <<id, col_delta, row_delta, style>>, TRUE, NoParent)
    /\ UNCHANGED overflow_checks

MaxScopeNodes == 3

ScopeNext ==
    \/ \E parent_id \in 0..1, name \in NavNames :
           NodeCount(Tree) < MaxScopeNodes /\ AddChild(parent_id, name)
    \/ \E parent_id \in 0..1 :
           /\ NodeCount(Tree) < MaxScopeNodes
           /\ AddChildWithFormatting(parent_id, "TextContent", FocusRequestingContent)
    \/ Update(Key("j"))
    \/ \E id \in 0..(MaxScopeNodes - 1), delta \in NavDeltas, style \in CursorStyles :
           MoveCursorThenSetCursorStyle(id, delta[1], delta[2], style)

ScopeSpec == Init /\ [][ScopeNext]_vars

\* C17: a command issued through the command object handed to node n writes
\* only n's own table entry, also when move_cursor was issued before it in
\* the same update call: set_cursor_style leaves the cursor style of every
\* other node as it was
C17_CommandScoping ==
    [][last_call'.op = "move_cursor;set_cursor_style"
       => \A m \in Ids(Tree) :
              m # last_call'.arg[1] => cursor_style'[m + 1] = cursor_style[m + 1]]_vars

\* ---- focus transfer between frames ----

MaxFocusNodes == 3

\* a Text component asks for the focus when it is added, a Frame does not
FocusNames == {"Line", "Frame"}

FocusNext ==
    \/ \E parent_id \in 0..1, name \in FocusNames :
           NodeCount(Tree) < MaxFocusNodes /\ AddChild(parent_id, name)
    \/ Update(Key("j"))
    \/ \E id \in 0..(MaxFocusNodes - 1), delta \in NavDeltas :
           MoveCursor(id, delta[1], delta[2])
    \/ \E size \in TerminalSizes : Layout(size)
    \/ Render

FocusSpec == Init /\ [][FocusNext]_vars

\* C18: whenever the focus id changes from a node a to a different node b,
\* both a and b are in the dirty set right after the operation that changed it
C18_FocusTransferInvalidatesBoth ==
    [][focus' # focus => {focus, focus'} \subseteq dirty']_vars

\* C20 (as stated): on success add_child gives the new node a zero rect,
\* queues it for the children() expansion, and puts it in the dirty set
\* exactly if it is not a Frame
C20_AlwaysQueued ==
    (last_call.op = "add_child" /\ last_call.ok) =>
        /\ rects[last_call.id + 1] = RectEmpty
        /\ \E k \in 1..Len(pending_initialization) : pending_initialization[k] = last_call.id
        /\ (last_call.id \in dirty <=> components[last_call.id + 1].kind # "Frame")

\* C20 (amended): on success add_child gives the new node a zero rect, and
\* the node is queued for the children() expansion exactly if it is not a
\* Frame, and is in the dirty set exactly if it is not a Frame
C20_QueuedUnlessFrame ==
    (last_call.op = "add_child" /\ last_call.ok) =>
        /\ rects[last_call.id + 1] = RectEmpty
        /\ ((\E k \in 1..Len(pending_initialization) : pending_initialization[k] = last_call.id)
               <=> components[last_call.id + 1].kind # "Frame")
        /\ (last_call.id \in dirty <=> components[last_call.id + 1].kind # "Frame")

\* a Frame was added under an existing parent: it is neither queued nor dirty
C20_Witness ==
    /\ last_call.op = "add_child"
    /\ last_call.ok
    /\ components[last_call.id + 1].kind = "Frame"
    /\ \A k \in 1..Len(pending_initialization) : pending_initialization[k] # last_call.id
    /\ last_call.id \notin dirty
    /\ rects[last_call.id + 1] = RectEmpty

\* ---- the Fill split ----

\* the layout mode's governing axis
AxisOf(id) == IF formatting[id + 1].layout_mode = "HorizontalSplit" THEN "x" ELSE "y"

\* the space layout_node hands to the children of a placed node
AvailableWidth(id) == calculate_size(formatting[id + 1].preferred_width, rects[id + 1].width)
AvailableHeight(id) == calculate_size(formatting[id + 1].preferred_height, rects[id + 1].height)

Extent(rect, axis) == IF axis = "x" THEN rect.width ELSE rect.height

FillChildren(id) ==
    {k \in 1..Len(children[id + 1]) : is_fill(Tree, children[id + 1][k], AxisOf(id))}

\* S: the sum of the resolved extents of the non-Fill children
NonFillTotal(id) ==
    SumSeq([k \in 1..Len(children[id + 1]) |->
               IF k \in FillChildren(id) THEN 0
               ELSE first_pass_extent(Tree, children[id + 1][k], AxisOf(id),
                                      AvailableWidth(id), AvailableHeight(id))])

\* floor(max(0, A - S) / f)
FillShare(id) ==
    Max(0, (IF AxisOf(id) = "x" THEN AvailableWidth(id) ELSE AvailableHeight(id))
           - NonFillTotal(id)) \div Cardinality(FillChildren(id))

FillRemainder(id) ==
    Max(0, (IF AxisOf(id) = "x" THEN AvailableWidth(id) ELSE AvailableHeight(id))
           - NonFillTotal(id)) % Cardinality(FillChildren(id))

\* C21: in a split with available extent A, f >= 1 Fill children and non-Fill
\* children whose extents sum to S, every Fill child is given exactly
\* floor(max(0, A - S) / f): the extents layout computes for the split say so,
\* and so does the rect of every Fill child layout placed
C21_FillSplit ==
    (last_call.op = "layout" /\ ~panicked) =>
        \A id \in placed : \A k \in FillChildren(id) :
            /\ governing_extents(Tree, children[id + 1], AxisOf(id),
                                 AvailableWidth(id), AvailableHeight(id))[k] = FillShare(id)
            /\ children[id + 1][k] \in placed
                  => Extent(rects[children[id + 1][k] + 1], AxisOf(id)) = FillShare(id)

\* two Fill children were placed beside a non-Fill one and the division left
\* a remainder, which none of the children received
C21_Witness ==
    /\ last_call.op = "layout"
    /\ ~panicked
    /\ \E id \in placed :
           /\ Cardinality(FillChildren(id)) = 2
           /\ Len(children[id + 1]) = 3
           /\ FillRemainder(id) = 1
           /\ \A k \in 1..3 : children[id + 1][k] \in placed
           /\ \A k \in FillChildren(id) :
                  Extent(rects[children[id + 1][k] + 1], AxisOf(id)) = FillShare(id)
           /\ SumSeq([k \in 1..3 |-> Extent(rects[children[id + 1][k] + 1], AxisOf(id))])
                  = Extent(rects[id + 1], AxisOf(id)) - 1

\* ---- BoxSpec: nested boxes of every Measurement kind ----

MaxBoxNodes == 4

HalfFormatting ==
    Formatting(Percent(50), Percent(50), "Hide", "Hide", FALSE, "VerticalSplit", TRUE)

BoxItems ==
    {<<"Frame", HalfFormatting>>, <<"Frame", CellFormatting(3)>>,
     <<"Frame", FillFormatting>>, <<"TextContent", TextContentFormatting>>}

BoxSizes == {<<8, 4>>, <<80, 24>>}

BoxNext ==
    \/ \E parent_id \in 0..1, item \in BoxItems :
           /\ NodeCount(Tree) < MaxBoxNodes
           /\ AddChildWithFormatting(parent_id, item[1], item[2])
    \/ \E size \in BoxSizes : Layout(size)

BoxSpec == Init /\ [][BoxNext]_vars

\* the node's only child asks for Fill on both axes, so the child's rect
\* shows the space the node's children were laid out in
OnlyFillChild(id) ==
    /\ Len(children[id + 1]) = 1
    /\ formatting[children[id + 1][1] + 1].preferred_width = Fill
    /\ formatting[children[id + 1][1] + 1].preferred_height = Fill
    /\ children[id + 1][1] \in placed

\* C22: for every non-root node that layout places, the space its children
\* are laid out in is the width and height of the node's own rect
C22_ChildrenGetOwnBox ==
    (last_call.op = "layout" /\ ~panicked) =>
        \A id \in placed \ {root} :
            /\ AvailableWidth(id) = rects[id + 1].width
            /\ AvailableHeight(id) = rects[id + 1].height
            /\ OnlyFillChild(id) =>
                  /\ rects[children[id + 1][1] + 1].width = rects[id + 1].width
                  /\ rects[children[id + 1][1] + 1].height = rects[id + 1].height

\* ---- BoundarySpec: leaves beside siblings that cannot take the focus ----

MaxBoundaryNodes == 4

\* a TextGutter is not focusable
BoundaryNames == {"TextContent", "TextGutter"}

BoundaryNext ==
    \/ \E parent_id \in 0..1, name \in BoundaryNames :
           NodeCount(Tree) < MaxBoundaryNodes /\ AddChild(parent_id, name)
    \/ Update(Key("j"))
    \/ \E id \in 0..(MaxBoundaryNodes - 1), delta \in NavDeltas :
           MoveCursor(id, delta[1], delta[2])

BoundarySpec == Init /\ [][BoundaryNext]_vars

\* the focus is the leaf the focus path ends in, and a move by row_delta
\* cannot be made inside it
SaturatesAtLeaf(row_delta) ==
    /\ focus_path # <<>>
    /\ focus_path[Len(focus_path)] = focus
    /\ IsLeaf(focus)
    /\ IF row_delta > 0
       THEN cursor_row[focus + 1] + 1
              > (IF formatting[focus + 1].overflow_x = "Wrap" THEN 0
                 ELSE Max(measure_logical_bounds(Tree, focus)[2] - 1, 0))
       ELSE cursor_row[focus + 1] = 0

\* the focused leaf's parent is the ancestor for the movement axis, and it has
\* no child in the direction of the move that could take the focus: the leaf
\* is its only child, or its first/last one, or the adjacent child contains no
\* focusable node
NoTargetSibling(row_delta) ==
    /\ parent[focus + 1] # NoParent
    /\ navigation_ancestor(Tree, focus, 0, row_delta) = parent[focus + 1]
    /\ LET siblings == children[parent[focus + 1] + 1]
           next == IndexInParent(focus) + row_delta
       IN \/ next < 1
          \/ next > Len(siblings)
          \/ ~try_enter_component(Tree, siblings[next])

\* C23: a move_cursor that saturates at the focused leaf's boundary and finds
\* no sibling to go to changes neither the focus id, nor the focus path, nor
\* the leaf's cursor, nor the ancestor's child-index cursor
C23_FailedNavigationIsNoOp ==
    [][(/\ last_call'.op = "move_cursor"
        /\ last_call'.arg[1] = focus
        /\ SaturatesAtLeaf(last_call'.arg[3])
        /\ NoTargetSibling(last_call'.arg[3]))
       => /\ focus' = focus
          /\ focus_path' = focus_path
          /\ cursor_col'[focus + 1] = cursor_col[focus + 1]
          /\ cursor_row'[focus + 1] = cursor_row[focus + 1]
          /\ cursor_row'[parent[focus + 1] + 1] = cursor_row[parent[focus + 1] + 1]]_vars

\* ---- TransferSpec: leaves of several rows and columns under one column ----

MaxTransferNodes == 3

\* a Pane is 3 columns by 2 rows; a wrapping Pane wraps them at its width
WrappingPane == [FormattingDefault EXCEPT !.overflow_x = "Wrap"]

TransferItems ==
    {<<"Pane", FormattingDefault>>, <<"Pane", WrappingPane>>,
     <<"TextContent", TextContentFormatting>>}

TransferDeltas == {<<0, 1>>, <<0, -1>>, <<1, 0>>, <<-1, 0>>}

TransferNext ==
    \/ \E item \in TransferItems :
           /\ NodeCount(Tree) < MaxTransferNodes
           /\ AddChildWithFormatting(root, item[1], item[2])
    \/ Update(Key("j"))
    \/ \E delta \in TransferDeltas : MoveCursor(focus, delta[1], delta[2])

TransferSpec == Init /\ [][TransferNext]_vars

\* the focus is the node the focus path ends in
FocusPathCurrent == focus_path # <<>> /\ focus_path[Len(focus_path)] = focus

LogicalWidth(id) == measure_logical_bounds(Tree, id)[1]
LogicalHeight(id) == measure_logical_bounds(Tree, id)[2]

C25_ClampWithoutTransition ==
    [][(/\ last_call'.op = "move_cursor"
        /\ FocusPathCurrent
        /\ IsLeaf(focus)
        /\ navigation_ancestor(Tree, focus, last_call'.arg[2], last_call'.arg[3]) = NoParent)
       => /\ focus' = focus
          /\ focus_path' = focus_path
          /\ cursor_col'[focus + 1]
               = Min(moved(cursor_col[focus + 1], last_call'.arg[2]),
                     Max(LogicalWidth(focus) - 1, 0))
          /\ cursor_row'[focus + 1]
               = Min(moved(cursor_row[focus + 1], last_call'.arg[3]),
                     Max(LogicalHeight(focus) - 1, 0))]_vars

\* what sibling navigation at the ancestor makes of the tree, as move_cursor
\* calls it: the ancestor first takes the leaf's column
NavigatedFrom(ancestor, row_delta) ==
    navigate_siblings(
        [t |-> [Tree EXCEPT !.cursor_col = Put(@, ancestor, cursor_col[focus + 1])],
         self_id |-> focus],
        ancestor, 0, row_delta).t

\* C27: a focused leaf whose horizontal overflow is Wrap is one logical row:
\* a move_cursor with a row delta is never a move inside the leaf, it is
\* sibling navigation at the nearest VerticalSplit ancestor, or the boundary
\* clamp when there is none, whatever row the leaf's cursor is on
C27_WrapIsOneRow ==
    [][(/\ last_call'.op = "move_cursor"
        /\ last_call'.arg[2] = 0
        /\ last_call'.arg[3] # 0
        /\ FocusPathCurrent
        /\ IsLeaf(focus)
        /\ formatting[focus + 1].overflow_x = "Wrap")
       => IF navigation_ancestor(Tree, focus, 0, last_call'.arg[3]) # NoParent
          THEN LET t == NavigatedFrom(navigation_ancestor(Tree, focus, 0, last_call'.arg[3]),
                                      last_call'.arg[3])
               IN /\ focus' = t.focus
                  /\ focus_path' = t.focus_path
                  /\ cursor_row' = t.cursor_row
                  /\ cursor_col' = t.cursor_col
          ELSE /\ focus' = focus
               /\ cursor_row'[focus + 1] = 0]_vars

\* ---- LeafSpec: focus transfers among focusable and unfocusable nodes ----

MaxLeafNodes == 3

\* a terminal of one row, and one of two
LeafSizes == {<<4, 1>>, <<4, 2>>}

LeafNext ==
    \/ \E parent_id \in 0..1, name \in BoundaryNames :
           NodeCount(Tree) < MaxLeafNodes /\ AddChild(parent_id, name)
    \/ Update(Key("j"))
    \/ \E delta \in NavDeltas : MoveCursor(focus, delta[1], delta[2])
    \/ \E size \in LeafSizes : Layout(size)
    \/ Render

LeafSpec == Init /\ [][LeafNext]_vars

\* C26: every focus transfer made by move_cursor, by the descent after the
\* pending components were expanded, or by the refocus in render, ends on a
\* node that is focusable and has no child that is focusable or contains a
\* focusable node
C26_TransferEndsOnFocusableLeaf ==
    [][(/\ focus' # focus
        /\ last_call'.op \in {"move_cursor", "update", "render"})
       => /\ formatting'[focus' + 1].focusable
          /\ \A k \in 1..Len(children'[focus' + 1]) :
                 ~try_enter_component(Tree', children'[focus' + 1][k])]_vars

\* C28: a wheel event changes the vertical scroll offset of exactly one node,
\* the nearest scrollable container at or above the topmost node under the
\* pointer, by at most one step; with no such container no tree state changes;
\* no component is updated either way.  (Every update of ScrollSpec is a
\* wheel event at the one point.)
C28_ScrollRouting ==
    [][last_call'.op = "update" =>
          IF WheelTarget = NoParent
          THEN /\ scroll_y' = scroll_y
               /\ dirty' = dirty
               /\ cursor_row' = cursor_row
               /\ components' = components
          ELSE /\ Len(scroll_y') = Len(scroll_y)
               /\ \A id \in 0..(Len(scroll_y) - 1) :
                      id # WheelTarget => scroll_y'[id + 1] = scroll_y[id + 1]
               /\ scroll_y'[WheelTarget + 1] - scroll_y[WheelTarget + 1] \in {-1, 0, 1}
               /\ components' = components]_vars

\* ---- the update pass ----

\* the nodes of the subtree of id, each parent before its children, siblings
\* in insertion order
RECURSIVE PreorderFrom(_, _)
RECURSIVE PreorderOf(_)
PreorderFrom(ids, k) ==
    IF k > Len(ids) THEN <<>> ELSE PreorderOf(ids[k]) \o PreorderFrom(ids, k + 1)

PreorderOf(id) == <<id>> \o PreorderFrom(children[id + 1], 1)

ShowsCursor == cursor_pos # <<>>

\* C30: render shows the terminal cursor at the end only if, during that same
\* pass, the focused node's cursor resolved to a position inside its rect;
\* otherwise the cursor stays hidden
C30_CursorShownOnlyIfResolved ==
    (last_call.op = "render" /\ ~panicked) => (ShowsCursor => resolved)

(***************************************************************************)
(* OriginSpec: rows and columns nested in each other with boxes of content *)
(* as leaves, laid out, scrolled and drawn.                                *)
(***************************************************************************)
MaxOriginNodes == 5

\* a box of content two rows high that fills the width it is given
StripFormatting == Formatting(Fill, Cell(2), "Hide", "Hide", FALSE, "VerticalSplit", TRUE)

\* what OriginSpec adds: a row, a filler column and a box
OriginItems ==
    {<<"Frame", RowFormatting>>, <<"Frame", FillFormatting>>,
     <<"Pane", StripFormatting>>}

OriginSizes == {<<8, 4>>}

\* the application nests rows in columns, columns in rows, and puts boxes in
\* containers only
Nests(parent_id, item) ==
    /\ parent_id < NodeCount(Tree)
    /\ components[parent_id + 1].kind = "Frame"
    /\ item[1] = "Frame" => item[2].layout_mode # formatting[parent_id + 1].layout_mode

OriginNext ==
    \/ \E parent_id \in 0..3, item \in OriginItems :
           /\ NodeCount(Tree) < MaxOriginNodes
           /\ Nests(parent_id, item)
           /\ AddChildWithFormatting(parent_id, item[1], item[2])
    \/ \E size \in OriginSizes : Layout(size)
    \/ \E offset \in 0..1 : SetScrollY(root, offset)
    \/ Render

OriginSpec == Init /\ [][OriginNext]_vars

\* the rows of the children of `p` before child `id` that are scrolled out of
\* a VerticalSplit `p`
RECURSIVE ScrolledRows(_, _, _)
ScrolledRows(p, id, k) ==
    IF k > Len(children[p + 1]) \/ children[p + 1][k] = id
       \/ k - 1 >= Get(scroll_y, p, 0)
       \/ formatting[p + 1].layout_mode # "VerticalSplit"
    THEN 0
    ELSE rects[children[p + 1][k] + 1].height + ScrolledRows(p, id, k + 1)

\* C31: every node that render of a laid-out tree hands to the compositor is
\* drawn at the screen origin of its parent plus its own layout offset inside
\* the parent, on both axes, with the rows of scrolled-out earlier siblings
\* taken off
C31_AbsoluteOrigin ==
    (last_call.op = "render" /\ ~panicked /\ LaidOut) =>
        \A d \in drawn_at :
            (d[1] \in composited /\ d[1] # root) =>
                \E p \in drawn_at :
                    /\ p[1] = parent[d[1] + 1]
                    /\ d[2] = p[2] + rects[d[1] + 1].x
                    /\ d[3] = p[3] + rects[d[1] + 1].y - ScrolledRows(p[1], d[1], 1)

(***************************************************************************)
(* Properties of the compositors, stated on CompositeSpec.                 *)
(***************************************************************************)
\* how many of the first k commands of the buffer print a character
RECURSIVE Rank(_, _)
Rank(buffer, k) ==
    IF k = 0 THEN 0
    ELSE Rank(buffer, k - 1) + (IF buffer[k] = "P" THEN 1 ELSE 0)

\* the buffer holds one row, without a row break, of more characters than fit
OneLongRow(buffer, width) ==
    /\ \A k \in 1..Len(buffer) : buffer[k] # "N"
    /\ Rank(buffer, Len(buffer)) > width

\* the cells of a compositor's output that hold a character
Characters(cells) == {cell \in cells : cell[3] > 0}

\* C32: of one row of n > w characters without a row break, Hide prints the
\* first w characters on the first screen row and drops the rest; Wrap prints
\* the characters in order, w to a screen row, on as many rows as the row
\* budget has; no character is put at a column >= w
C32_LongRow ==
    (last_call.op = "composite" /\ OneLongRow(last_call.arg[1], last_call.arg[2])) =>
        LET buffer == last_call.arg[1]
            w == last_call.arg[2]
            budget == last_call.arg[3]
            prints == {k \in 1..Len(buffer) : buffer[k] = "P"}
        IN /\ last_call.arg[4] = "Hide" =>
                Characters(last_call.id)
                    = {<<Rank(buffer, k) - 1, 0, k>> :
                          k \in {j \in prints : Rank(buffer, j) <= w /\ budget > 0}}
           /\ last_call.arg[4] = "Wrap" =>
                Characters(last_call.id)
                    = {<<(Rank(buffer, k) - 1) % w, (Rank(buffer, k) - 1) \div w, k>> :
                          k \in {j \in prints : (Rank(buffer, j) - 1) \div w < budget}}
           /\ \A cell \in Characters(last_call.id) : cell[1] < w

\* three characters wrapped at width 2: the third starts the second row
C32_Witness ==
    /\ last_call.op = "composite"
    /\ last_call.arg = <<<<"P", "P", "P">>, 2, 2, "Wrap">>
    /\ Characters(last_call.id) = {<<0, 0, 1>>, <<1, 0, 2>>, <<0, 1, 3>>}

(***************************************************************************)
(* measure_content over any recorded commands, stated on MeasureSpec.      *)
(***************************************************************************)
\* the numbers of characters between the row breaks of the buffer from
\* command k on, `count` characters into the current stretch
RECURSIVE Stretches(_, _, _)
Stretches(buffer, k, count) ==
    IF k > Len(buffer) THEN <<count>>
    ELSE IF buffer[k] = "N" THEN <<count>> \o Stretches(buffer, k + 1, 0)
    ELSE Stretches(buffer, k + 1, count + (IF buffer[k] = "P" THEN 1 ELSE 0))

\* the rows that `count` characters take when a new row starts whenever one
\* more character would exceed width w
RowsOf(count, w) ==
    IF count = 0 THEN 1
    ELSE IF w = 0 THEN 1 + count
    ELSE (count + w - 1) \div w

\* the widest of those rows
WidestOf(count, w) == IF w = 0 THEN Min(count, 1) ELSE Min(count, w)

\* the largest element of a sequence of naturals
RECURSIVE MaxSeq(_)
MaxSeq(s) == IF s = <<>> THEN 0 ELSE Max(Head(s), MaxSeq(Tail(s)))

\* C33: measure_content gives (0, 0) for a buffer without commands and
\* otherwise (width of the widest row, number of rows), where a row ends at
\* every row break and whenever one more character would exceed the declared
\* width; style markers count for nothing
C33_MeasureContent ==
    last_call.op = "measure_commands" =>
        LET buffer == last_call.arg[1]
            w == last_call.arg[2]
            counts == Stretches(buffer, 1, 0)
        IN last_call.id =
             IF buffer = <<>> THEN <<0, 0>>
             ELSE <<MaxSeq([i \in 1..Len(counts) |-> WidestOf(counts[i], w)]),
                    SumSeq([i \in 1..Len(counts) |-> RowsOf(counts[i], w)])>>

\* a marker, two characters and a row break measured at width 1: two rows
\* of one character and an empty one
C33_Witness ==
    /\ last_call.op = "measure_commands"
    /\ last_call.arg = <<<<"B", "P", "P", "N">>, 1>>
    /\ last_call.id = <<1, 3>>

(***************************************************************************)
(* A failing expansion, stated on Spec.                                    *)
(***************************************************************************)
\* C34: when update fails because a node's children() returns an error, every
\* node that is not a Frame and whose children() has not been invoked yet is
\* still in the pending queue
C34_NoQueuedNodeLost ==
    (last_call.op = "update" /\ ~last_call.ok) =>
        \A id \in 0..(Len(components) - 1) :
            (components[id + 1].kind # "Frame" /\ expanded[id + 1] = 0) =>
                \E k \in 1..Len(pending_initialization) : pending_initialization[k] = id

\* C35: under either policy every cell the compositor writes, character or
\* blank, lies inside the rect: at a column below the width and at a row below
\* the row budget, also when the content fills or exceeds the budget and when
\* the budget is 0
C35_Containment ==
    last_call.op = "composite" =>
        \A cell \in last_call.id :
            cell[1] < last_call.arg[2] /\ cell[2] < last_call.arg[3]

(***************************************************************************)
(* The frame of a wheel event, stated on ScrollSpec.                       *)
(***************************************************************************)
\* C36: a wheel event leaves the stored vertical scroll offset of every node
\* other than the container it is routed to as it was.  (Every update of
\* ScrollSpec is a wheel event at the one point.)
C36_OnlyTargetScrolls ==
    [][last_call'.op = "update" =>
          \A id \in 0..(Len(components) - 1) :
              id # WheelTarget => Get(scroll_y', id, 0) = Get(scroll_y, id, 0)]_vars

(***************************************************************************)
(* FailingSpec: a column of boxes and rows of boxes, laid out, scrolled    *)
(* and drawn on a terminal that may fail.                                  *)
(***************************************************************************)
MaxFailingNodes == 4

\* where the terminal may fail during a render: at Hide, at Show, and at any
\* node while it is composited or while the space below its children is filled
FailurePoints ==
    {<<"hide">>, <<"show">>}
        \cup {<<phase, id>> : phase \in {"self", "fill"}, id \in 0..(MaxFailingNodes - 1)}

FailingItems == {<<"Frame", RowFormatting>>, <<"Pane", StripFormatting>>}

FailingNext ==
    \/ \E parent_id \in 0..2, item \in FailingItems :
           /\ NodeCount(Tree) < MaxFailingNodes
           /\ Nests(parent_id, item)
           /\ AddChildWithFormatting(parent_id, item[1], item[2])
    \/ \E size \in OriginSizes : Layout(size)
    \/ SetScrollY(root, 1)
    \/ Render
    \/ \E point \in FailurePoints : RenderFailing(point)

FailingSpec == Init /\ [][FailingNext]_vars

\* C37: when render returns, with or without an error of the terminal, every
\* node has the rect it had before the call
C37_RenderKeepsRects ==
    [][last_call'.op \in {"render", "render_failing"} => rects' = rects]_vars

\* a render failed at a node that was drawn away from its layout offset
C37_Witness ==
    /\ last_call.op = "render_failing"
    /\ LaidOut
    /\ Len(last_call.arg) = 2
    /\ \E d \in drawn_at :
          /\ d[1] = last_call.arg[2]
          /\ <<d[2], d[3]>> # <<rects[d[1] + 1].x, rects[d[1] + 1].y>>

(***************************************************************************)
(* Arithmetic of render, stated on RenderSpec.                             *)
(***************************************************************************)
\* C38: render completes without an arithmetic underflow or overflow in every
\* tree state, also when a VerticalSplit ancestor of the focus has height 0
\* and scroll offset 0
C38_RenderArithmetic ==
    last_call.op = "render" => ~panicked

(***************************************************************************)
(* The per-node tables, stated on ScrollSpec.                              *)
(***************************************************************************)
\* C39: after any sequence of add_child, update, layout and render calls all
\* per-node tables have one entry per node
C39_TablesAligned ==
    \A len \in {Len(parent), Len(children), Len(rects), Len(formatting),
                Len(scroll_x), Len(scroll_y), Len(cursor_col), Len(cursor_row),
                Len(cursor_initialized), Len(cursor_style)} :
        len = Len(components)

(***************************************************************************)
(* The child index a container keeps, stated on BoundarySpec.              *)
(***************************************************************************)
\* the index, from 0, of the child of `ancestor` that lies on the focus path;
\* -1 when none does
PathChildIndex(ancestor) ==
    LET on_path == {k \in 1..Len(children[ancestor + 1]) :
                      \E i \in 1..Len(focus_path) :
                          focus_path[i] = children[ancestor + 1][k]}
    IN IF on_path = {} THEN -1 ELSE (CHOOSE k \in on_path : TRUE) - 1

\* C40: whenever a row move of move_cursor leaves the focused leaf and is
\* resolved by sibling navigation at an ancestor container, the child index in
\* that container's cursor row is the index of its child on the focus path
C40_ChildIndexTracksFocus ==
    [][(/\ last_call'.op = "move_cursor"
        /\ last_call'.arg[2] = 0
        /\ SaturatesAtLeaf(last_call'.arg[3])
        /\ navigation_ancestor(Tree, focus, 0, last_call'.arg[3]) # NoParent)
       => LET ancestor == navigation_ancestor(Tree, focus, 0, last_call'.arg[3])
          IN cursor_row[ancestor + 1] = PathChildIndex(ancestor)]_vars

====
